---- MODULE Spec2Model ----
(***************************************************************************)
(* University scraper: the site scrapers (university_scraper.py and the    *)
(* LSEScraper class text carried by fix_lse_scraper.py), the SQLite store  *)
(* (DatabaseManager) and the orchestrator main().                          *)
(*                                                                         *)
(* Text is modelled as a sequence of one-character strings, so substring   *)
(* tests, slicing, upper() and split()/join() are computed as Python       *)
(* computes them.  An Optional value is a sequence of length 0 (None) or 1.*)
(*                                                                         *)
(* "LSEFix" names the LSEScraper class of fix_lse_scraper.py:32-270.  It   *)
(* overrides __init__ and get_courses and adds helper methods; it calls    *)
(* get_university_info and _determine_area, which it does not define, so   *)
(* those are the ones of university_scraper.py's LSEScraper.               *)
(***************************************************************************)
EXTENDS Integers, Sequences, FiniteSets, TLC

VARIABLES
    universities,           \* rows of table universities
    degree_courses,         \* rows of table degree_courses
    learning_modules,       \* rows of table learning_modules (never written)
    admission_requirements, \* rows of table admission_requirements (never written)
    now,                    \* wall clock in seconds (CURRENT_TIMESTAMP)
    stats,                  \* Optional: the last get_statistics() result
    exported,               \* Optional: the last export written (JSON, CSV or Excel)
    config,                 \* configuration of the run
    patched,                \* TRUE when LSEScraper is the class of fix_lse_scraper.py
    pc,                     \* position of main()
    todo,                   \* scraper keys main()'s loop has not yet visited
    cur,                    \* Optional: the key being processed
    scrapers,               \* per key: the scraper object's use_selenium and driver
    uni_info,               \* Optional: the record get_university_info returned
    started,                \* per key: times its processing was started in this run
    raisedIn,               \* per key: Optional step at which its processing raised
    lost,                   \* per key and table: a row the institution had before a
                            \* step of this run was gone, or altered, after it
    gc,                     \* position and locals of the get_courses() call in progress
    lastSave,               \* Optional: the save call made last, and whether it repeats
    site,                   \* the pages the sites may serve
    cli,                    \* position, arguments and outcome of main_cli()
    inst,                   \* one scraper object from construction to teardown
    cin,                    \* input of the last classifier call
    cout                    \* its result

storeVars == <<universities, degree_courses, learning_modules,
               admission_requirements, now, stats, exported, lastSave>>
mainVars == <<config, patched, pc, todo, cur, scrapers, uni_info,
              started, raisedIn, lost>>
pureVars == <<cin, cout>>
vars == <<universities, degree_courses, learning_modules, admission_requirements,
          now, stats, exported, lastSave, config, patched, pc, todo, cur,
          scrapers, uni_info, started, raisedIn, lost, gc, site, cli, inst, cin, cout>>

None == <<>>
Some(x) == <<x>>


LowerChars ==
    <<"a", "b", "c", "d", "e", "f", "g", "h", "i", "j", "k", "l", "m", "n", "o", "p", "q", "r", "s", "t", "u", "v", "w", "x", "y", "z">>

UpperChars ==
    <<"A", "B", "C", "D", "E", "F", "G", "H", "I", "J", "K", "L", "M", "N", "O", "P", "Q", "R", "S", "T", "U", "V", "W", "X", "Y", "Z">>

MasterIndicators ==
    << <<"M", "S", "c">>, <<"M", "A">>, <<"M", "R", "e", "s">>, <<"M", "P", "h", "i", "l">> >>

LinkIndicators ==
    << <<"B", "S", "c">>, <<"B", "A">>, <<"M", "S", "c">>, <<"M", "A">>, <<"L", "L", "B">> >>

NameIndicators ==
    <<
    <<"B", "S", "c">>,
    <<"B", "A">>,
    <<"M", "S", "c">>,
    <<"M", "A">>,
    <<"L", "L", "B">>,
    <<"L", "L", "M">>,
    <<"P", "h", "D">>,
    <<"M", "P", "h", "i", "l">>,
    <<"M", "R", "e", "s">> >>

NameSubjects ==
    <<
    <<"E", "c", "o", "n", "o", "m", "i", "c", "s">>,
    <<"F", "i", "n", "a", "n", "c", "e">>,
    <<"M", "a", "n", "a", "g", "e", "m", "e", "n", "t">>,
    <<"P", "o", "l", "i", "t", "i", "c", "s">>,
    <<"L", "a", "w">>,
    <<"S", "o", "c", "i", "o", "l", "o", "g", "y">> >>

NameExclude ==
    <<
    <<"C", "o", "o", "k", "i", "e">>,
    <<"M", "e", "n", "u">>,
    <<"S", "e", "a", "r", "c", "h">>,
    <<"A", "p", "p", "l", "y">>,
    <<"M", "o", "r", "e">>,
    <<"C", "l", "i", "c", "k", " ", "h", "e", "r", "e">>,
    <<"R", "e", "a", "d", " ", "m", "o", "r", "e">> >>

LSE_areas ==
    <<
    [area |-> "Economics",
     keywords |-> << <<"E", "c", "o", "n", "o", "m", "i", "c", "s">>,
                    <<"E", "c", "o", "n", "o", "m", "e", "t", "r", "i", "c", "s">>,
                    <<"E", "c", "o", "n", "o", "m", "i", "c">> >>],
    [area |-> "Finance",
     keywords |-> << <<"F", "i", "n", "a", "n", "c", "e">>,
                    <<"A", "c", "c", "o", "u", "n", "t", "i", "n", "g">>,
                    <<"A", "c", "t", "u", "a", "r", "i", "a", "l">> >>],
    [area |-> "Politics",
     keywords |-> << <<"P", "o", "l", "i", "t", "i", "c", "s">>,
                    <<"G", "o", "v", "e", "r", "n", "m", "e", "n", "t">>,
                    <<"I", "n", "t", "e", "r", "n", "a", "t", "i", "o", "n", "a", "l", " ", "R", "e", "l", "a", "t", "i", "o", "n", "s">> >>],
    [area |-> "Social Sciences",
     keywords |-> << <<"S", "o", "c", "i", "o", "l", "o", "g", "y">>,
                    <<"A", "n", "t", "h", "r", "o", "p", "o", "l", "o", "g", "y">>,
                    <<"S", "o", "c", "i", "a", "l">> >>],
    [area |-> "Management",
     keywords |-> << <<"M", "a", "n", "a", "g", "e", "m", "e", "n", "t">>,
                    <<"B", "u", "s", "i", "n", "e", "s", "s">> >>],
    [area |-> "Data Science",
     keywords |-> << <<"D", "a", "t", "a">>,
                    <<"S", "t", "a", "t", "i", "s", "t", "i", "c", "s">> >>],
    [area |-> "Law",
     keywords |-> << <<"L", "a", "w">>,
                    <<"L", "e", "g", "a", "l">> >>] >>

Bologna_areas ==
    <<
    [area |-> "Engineering",
     keywords |-> << <<"E", "n", "g", "i", "n", "e", "e", "r", "i", "n", "g">>,
                    <<"C", "o", "m", "p", "u", "t", "e", "r">>,
                    <<"E", "l", "e", "c", "t", "r", "o", "n", "i", "c">>,
                    <<"M", "e", "c", "h", "a", "n", "i", "c", "a", "l">> >>],
    [area |-> "Medicine",
     keywords |-> << <<"M", "e", "d", "i", "c", "i", "n", "e">>,
                    <<"M", "e", "d", "i", "c", "a", "l">>,
                    <<"H", "e", "a", "l", "t", "h">>,
                    <<"P", "h", "a", "r", "m", "a", "c", "e", "u", "t", "i", "c", "a", "l">> >>],
    [area |-> "Economics",
     keywords |-> << <<"E", "c", "o", "n", "o", "m", "i", "c", "s">>,
                    <<"B", "u", "s", "i", "n", "e", "s", "s">>,
                    <<"F", "i", "n", "a", "n", "c", "e">>,
                    <<"M", "a", "n", "a", "g", "e", "m", "e", "n", "t">> >>],
    [area |-> "Sciences",
     keywords |-> << <<"P", "h", "y", "s", "i", "c", "s">>,
                    <<"C", "h", "e", "m", "i", "s", "t", "r", "y">>,
                    <<"B", "i", "o", "l", "o", "g", "y">>,
                    <<"M", "a", "t", "h", "e", "m", "a", "t", "i", "c", "s">> >>],
    [area |-> "Humanities",
     keywords |-> << <<"H", "i", "s", "t", "o", "r", "y">>,
                    <<"P", "h", "i", "l", "o", "s", "o", "p", "h", "y">>,
                    <<"L", "i", "t", "e", "r", "a", "t", "u", "r", "e">>,
                    <<"L", "a", "n", "g", "u", "a", "g", "e", "s">> >>],
    [area |-> "Law",
     keywords |-> << <<"L", "a", "w">>,
                    <<"L", "e", "g", "a", "l">>,
                    <<"J", "u", "r", "i", "d", "i", "c", "a", "l">> >>] >>

known_programmes ==
    <<
    << <<"B", "S", "c", " ", "E", "c", "o", "n", "o", "m", "i", "c", "s">>,
       "undergraduate" >>,
    << <<"B", "S", "c", " ", "F", "i", "n", "a", "n", "c", "e">>,
       "undergraduate" >>,
    << <<"B", "S", "c", " ", "A", "c", "c", "o", "u", "n", "t", "i", "n", "g", " ", "a", "n", "d", " ", "F", "i", "n", "a", "n", "c", "e">>,
       "undergraduate" >>,
    << <<"B", "S", "c", " ", "M", "a", "n", "a", "g", "e", "m", "e", "n", "t">>,
       "undergraduate" >>,
    << <<"B", "S", "c", " ", "I", "n", "t", "e", "r", "n", "a", "t", "i", "o", "n", "a", "l", " ", "R", "e", "l", "a", "t", "i", "o", "n", "s">>,
       "undergraduate" >>,
    << <<"B", "S", "c", " ", "G", "o", "v", "e", "r", "n", "m", "e", "n", "t">>,
       "undergraduate" >>,
    << <<"B", "S", "c", " ", "S", "o", "c", "i", "a", "l", " ", "P", "o", "l", "i", "c", "y">>,
       "undergraduate" >>,
    << <<"B", "S", "c", " ", "S", "o", "c", "i", "o", "l", "o", "g", "y">>,
       "undergraduate" >>,
    << <<"B", "S", "c", " ", "G", "e", "o", "g", "r", "a", "p", "h", "y", " ", "a", "n", "d", " ", "E", "c", "o", "n", "o", "m", "i", "c", "s">>,
       "undergraduate" >>,
    << <<"B", "S", "c", " ", "M", "a", "t", "h", "e", "m", "a", "t", "i", "c", "s", " ", "a", "n", "d", " ", "E", "c", "o", "n", "o", "m", "i", "c", "s">>,
       "undergraduate" >>,
    << <<"B", "S", "c", " ", "E", "c", "o", "n", "o", "m", "e", "t", "r", "i", "c", "s", " ", "a", "n", "d", " ", "M", "a", "t", "h", "e", "m", "a", "t", "i", "c", "a", "l", " ", "E", "c", "o", "n", "o", "m", "i", "c", "s">>,
       "undergraduate" >>,
    << <<"B", "S", "c", " ", "D", "a", "t", "a", " ", "S", "c", "i", "e", "n", "c", "e">>,
       "undergraduate" >>,
    << <<"B", "A", " ", "H", "i", "s", "t", "o", "r", "y">>,
       "undergraduate" >>,
    << <<"B", "A", " ", "A", "n", "t", "h", "r", "o", "p", "o", "l", "o", "g", "y", " ", "a", "n", "d", " ", "L", "a", "w">>,
       "undergraduate" >>,
    << <<"L", "L", "B", " ", "L", "a", "w", "s">>,
       "undergraduate" >>,
    << <<"M", "S", "c", " ", "E", "c", "o", "n", "o", "m", "i", "c", "s">>,
       "graduate" >>,
    << <<"M", "S", "c", " ", "F", "i", "n", "a", "n", "c", "e">>,
       "graduate" >>,
    << <<"M", "S", "c", " ", "A", "c", "c", "o", "u", "n", "t", "i", "n", "g", " ", "a", "n", "d", " ", "F", "i", "n", "a", "n", "c", "e">>,
       "graduate" >>,
    << <<"M", "S", "c", " ", "M", "a", "n", "a", "g", "e", "m", "e", "n", "t", " ", "a", "n", "d", " ", "S", "t", "r", "a", "t", "e", "g", "y">>,
       "graduate" >>,
    << <<"M", "S", "c", " ", "D", "a", "t", "a", " ", "S", "c", "i", "e", "n", "c", "e">>,
       "graduate" >>,
    << <<"M", "S", "c", " ", "I", "n", "t", "e", "r", "n", "a", "t", "i", "o", "n", "a", "l", " ", "R", "e", "l", "a", "t", "i", "o", "n", "s">>,
       "graduate" >>,
    << <<"M", "S", "c", " ", "P", "u", "b", "l", "i", "c", " ", "P", "o", "l", "i", "c", "y">>,
       "graduate" >>,
    << <<"M", "S", "c", " ", "D", "e", "v", "e", "l", "o", "p", "m", "e", "n", "t", " ", "E", "c", "o", "n", "o", "m", "i", "c", "s">>,
       "graduate" >>,
    << <<"M", "S", "c", " ", "R", "i", "s", "k", " ", "a", "n", "d", " ", "F", "i", "n", "a", "n", "c", "e">>,
       "graduate" >>,
    << <<"M", "S", "c", " ", "M", "a", "r", "k", "e", "t", "i", "n", "g">>,
       "graduate" >> >>


(***************************************************************************)
(* Python str operations on character sequences.                           *)
(***************************************************************************)
Whitespace == {" ", "\t", "\n"}

Min(a, b) == IF a < b THEN a ELSE b

\* s[:n]
Slice(s, n) == SubSeq(s, 1, Min(n, Len(s)))

\* pat in s
Contains(s, pat) ==
    \E i \in 0..(Len(s) - Len(pat)) : SubSeq(s, i + 1, i + Len(pat)) = pat

\* any(p in s for p in pats)
ContainsAny(s, pats) == \E k \in 1..Len(pats) : Contains(s, pats[k])

\* the upper-case letter of each lower-case one
UpperOf ==
    [c \in {LowerChars[i] : i \in 1..Len(LowerChars)} |->
        UpperChars[CHOOSE i \in 1..Len(LowerChars) : LowerChars[i] = c]]

upper_char(c) == IF c \in DOMAIN UpperOf THEN UpperOf[c] ELSE c

\* s.upper()
upper(s) == [i \in 1..Len(s) |-> upper_char(s[i])]

\* s.replace(' ', '')
remove_spaces(s) == SelectSeq(s, LAMBDA c : c # " ")

\* s.isupper(): at least one cased character and no lower-case one
isupper(s) ==
    /\ \E i \in 1..Len(s) : s[i] \in {UpperChars[k] : k \in 1..Len(UpperChars)}
    /\ ~ \E i \in 1..Len(s) : s[i] \in DOMAIN UpperOf

\* s.split(): the maximal runs of non-whitespace characters
RECURSIVE split(_)
split(s) ==
    IF s = <<>> THEN <<>>
    ELSE IF Head(s) \in Whitespace THEN split(Tail(s))
    ELSE LET stops == {i \in 1..Len(s) : s[i] \in Whitespace}
             n == IF stops = {} THEN Len(s) + 1
                  ELSE CHOOSE i \in stops : \A j \in stops : i <= j
         IN  <<SubSeq(s, 1, n - 1)>> \o split(SubSeq(s, n, Len(s)))

\* sep.join(words)
RECURSIVE join(_, _)
join(sep, words) ==
    IF words = <<>> THEN <<>>
    ELSE IF Len(words) = 1 THEN words[1]
    ELSE words[1] \o sep \o join(sep, Tail(words))

\* UniversityScraper.clean_text
clean_text(text) ==
    IF text = <<>> THEN <<>> ELSE join(<<" ">>, split(text))

(***************************************************************************)
(* Subject area: first area of the table, in insertion order, one of whose *)
(* keywords occurs in the upper-cased name.                                *)
(***************************************************************************)
area_matches(areas, course_upper, k) ==
    \E j \in 1..Len(areas[k].keywords) :
        Contains(course_upper, upper(areas[k].keywords[j]))

\* the last matching area of the table winning
determine_area_last(areas, course_name) ==
    LET course_upper == upper(course_name)
        hits == {k \in 1..Len(areas) : area_matches(areas, course_upper, k)}
    IN  IF hits = {} THEN "Other"
        ELSE areas[CHOOSE k \in hits : \A j \in hits : k >= j].area

determine_area(areas, course_name) ==
    LET course_upper == upper(course_name)
        hits == {k \in 1..Len(areas) : area_matches(areas, course_upper, k)}
    IN  IF hits = {} THEN "Other"
        ELSE areas[CHOOSE k \in hits : \A j \in hits : k <= j].area

LSE_determine_area(course_name) == determine_area(LSE_areas, course_name)

Bologna_determine_area(course_name) == determine_area(Bologna_areas, course_name)


(***************************************************************************)
(* Course records.  A record keeps the columns that vary; the columns the  *)
(* scrapers fill with fixed text (language, access, academic year, remote  *)
(* mode, fees, website_university) are left out.                           *)
(* degree_course_code is f"{id}_{prefix}_{microsecond}": the triple below  *)
(* determines the string and the string determines the triple.            *)
(***************************************************************************)
Micro == 1000000

s_BSc == <<"B", "S", "c">>
s_BA == <<"B", "A">>
s_MSc == <<"M", "S", "c">>
s_MA == <<"M", "A">>
s_LLM == <<"L", "L", "M">>
s_PhD == <<"P", "h", "D">>

Bachelor == "Bachelor's Degree"
Master == "Master's Degree"
Doctoral == "Doctoral Degree"

LSE_base_url == "https://www.lse.ac.uk"
Bologna_base_url == "https://www.unibo.it"

\* Hrefs are drawn from Hrefs; the substring tests on them are decided here.
ProgrammeHref == "/study-at-lse/undergraduate/offer-holder/programme"
OtherHref == "/about-lse"
AbsoluteHref == "https://info.lse.ac.uk/degree-programmes/x"
Hrefs == {ProgrammeHref, OtherHref, AbsoluteHref}

\* '/offer-holder/' in href or '/degree-programmes/' in href
is_programme_href(href) == href \in {ProgrammeHref, AbsoluteHref}

\* link.startswith('http')
startswith_http(link) == link = AbsoluteHref

\* urllib.parse.urljoin(base, href): href itself when it is absolute
urljoin(base, href) ==
    IF startswith_http(href) THEN [base |-> "", path |-> href]
    ELSE [base |-> base, path |-> href]

Course(code, name, years, type, area, url, uid) ==
    [degree_course_code |-> code,
     degree_course_name |-> name,
     degree_course_period_years |-> years,
     degree_course_type |-> type,
     course_area |-> area,
     website_course |-> url,
     university_id |-> uid]

\* a classifier that reads the name only
LSEFix_classify_by_name(text, prog_type) ==
    IF ContainsAny(text, MasterIndicators) \/ Contains(text, s_LLM)
    THEN [type |-> Master, years |-> 1]
    ELSE IF Contains(text, s_PhD) THEN [type |-> Doctoral, years |-> 4]
    ELSE [type |-> Bachelor, years |-> 3]

\* fix_lse_scraper.py: "Determine course type and duration"
LSEFix_classify(text, prog_type) ==
    IF prog_type = "graduate" \/ ContainsAny(text, MasterIndicators)
    THEN [type |-> Master, years |-> 1]
    ELSE IF Contains(text, s_LLM) THEN [type |-> Master, years |-> 1]
    ELSE IF Contains(text, s_PhD) THEN [type |-> Doctoral, years |-> 4]
    ELSE [type |-> Bachelor, years |-> 3]

\* fix_lse_scraper.py: "Generate code"
LSEFix_code(text, micro) == <<"LSE", remove_spaces(upper(Slice(text, 4))), micro>>

\* LSEScraper._create_course_from_text of fix_lse_scraper.py.  micro is the
\* value datetime.now().microsecond has when the code is generated.
LSEFix_create_course_from_text(text_in, link, prog_type, micro) ==
    IF text_in = <<>> THEN None
    ELSE LET text == clean_text(text_in)
             cls == LSEFix_classify(text, prog_type)
             url == IF link = "" THEN [base |-> LSE_base_url, path |-> ""]
                    ELSE urljoin(LSE_base_url, link)
         IN  Some(Course(LSEFix_code(text, micro), text, cls.years, cls.type,
                         LSE_determine_area(text), url, "LSE"))

\* university_scraper.py LSEScraper: "Determine course type and duration"
LSE_classify(name) ==
    IF Contains(name, s_BSc) \/ Contains(name, s_BA)
    THEN [type |-> Bachelor, years |-> 3]
    ELSE IF Contains(name, s_MSc) \/ Contains(name, s_MA)
    THEN [type |-> Master, years |-> 1]
    ELSE [type |-> "Other", years |-> 1]

LSE_code(name, micro) == <<"LSE", upper(Slice(name, 4)), micro>>

\* LSEScraper._parse_course_item of university_scraper.py.  An item is
\* [title: Optional text of its first h2/h3/h4, href: Optional href of its
\* first link].
LSE_parse_course_item(item, micro) ==
    IF item.title = None THEN None
    ELSE LET name == clean_text(item.title[1])
             cls == LSE_classify(name)
             url == IF item.href = None THEN [base |-> "", path |-> ""]
                    ELSE urljoin(LSE_base_url, item.href[1])
         IN  Some(Course(LSE_code(name, micro), name, cls.years, cls.type,
                         LSE_determine_area(name), url, "LSE"))

Bologna_classify(degree_type) ==
    IF degree_type = "first_cycle" THEN [type |-> Bachelor, years |-> 3]
    ELSE [type |-> Master, years |-> 2]

Bologna_code(name, micro) == <<"UNIBO", upper(Slice(name, 3)), micro>>

\* BolognaScraper._parse_course_item.  An item is [tag: "a" or "div",
\* text: Optional text of the link (the item itself when it is an <a>, else
\* its first inner link), href: its href ('' when the attribute is absent)].
Bologna_parse_course_item(item, degree_type, micro) ==
    IF item.tag # "a" /\ item.text = None THEN None
    ELSE LET name == clean_text(item.text[1])
             cls == Bologna_classify(degree_type)
         IN  Some(Course(Bologna_code(name, micro), name, cls.years, cls.type,
                         Bologna_determine_area(name),
                         urljoin(Bologna_base_url, item.href), "UNIBO"))


(***************************************************************************)
(* DatabaseManager.  A table is the set of its rows; a row is the record   *)
(* of its columns.  Every call opens its own connection and commits before *)
(* returning; a call that raises inside "with sqlite3.connect(...)" is     *)
(* rolled back.                                                            *)
(***************************************************************************)
Bologna_university_info ==
    [university_id |-> "UNIBO",
     university_name |-> "Universita di Bologna",
     university_city |-> "Bologna",
     university_ranking_world |-> 133]

LSE_university_info ==
    [university_id |-> "LSE",
     university_name |-> "London School of Economics and Political Science",
     university_city |-> "London",
     university_ranking_world |-> 50]

\* last_updated TIMESTAMP DEFAULT CURRENT_TIMESTAMP
with_last_updated(data, t) ==
    [c \in DOMAIN data \cup {"last_updated"} |->
        IF c = "last_updated" THEN t ELSE data[c]]

\* a plain INSERT that keeps the row it finds
insert_only(table, key, row) == table \cup {row}

\* a save that never reaches the file
save_university_unsaved(table, university_data, t) == table

\* INSERT OR REPLACE INTO table ...: a row with the same primary key is
\* deleted, then the new row is inserted.
insert_or_replace(table, key, row) ==
    {r \in table : r[key] # row[key]} \cup {row}

\* DatabaseManager.save_university, when it commits
save_university(table, university_data, t) ==
    insert_or_replace(table, "university_id", with_last_updated(university_data, t))

\* DatabaseManager.save_courses, when it commits: one INSERT OR REPLACE per
\* course, in list order
RECURSIVE save_courses(_, _, _)
save_courses(table, courses, t) ==
    IF courses = <<>> THEN table
    ELSE save_courses(
             insert_or_replace(table, "degree_course_code",
                               with_last_updated(Head(courses), t)),
             Tail(courses), t)

\* a connection that commits what was executed before the exception
committed_anyway(table, written) == written

\* "with sqlite3.connect(self.db_path) as conn:" left by an exception: the
\* connection is rolled back; of the table as it was and as the statements
\* executed so far made it, the first stays
rolled_back(table, written) == table

\* a connection that deleted what it read
after_select_emptied(table) == {}

\* a table after "with sqlite3.connect(self.db_path) as conn:" in which only
\* SELECT statements were executed: the commit at the end of the block, or
\* the rollback when the block is left by an exception, has nothing to write
after_select(table) == table

\* cursor.fetchall(): the rows in some order
RECURSIVE fetchall(_)
fetchall(rows) ==
    IF rows = {} THEN <<>>
    ELSE LET r == CHOOSE r \in rows : TRUE
         IN  <<r>> \o fetchall(rows \ {r})

\* an export whose courses query joins the institutions
export_to_json_joined(unis, courses, modules, requirements) ==
    [universities |-> fetchall(unis),
     courses |-> fetchall({c \in courses :
                             \E u \in unis : u.university_id = c.university_id}),
     modules |-> fetchall(modules),
     requirements |-> fetchall(requirements)]

\* DatabaseManager.export_to_json: the document json.dump writes (export_date
\* left out).  JSON keeps a list a list and a row's columns its keys.
export_to_json(unis, courses, modules, requirements) ==
    [universities |-> fetchall(unis),
     courses |-> fetchall(courses),
     modules |-> fetchall(modules),
     requirements |-> fetchall(requirements)]

\* DatabaseManager.export_to_csv: universities.csv and courses.csv, one line
\* per row of "SELECT * FROM universities" and "SELECT * FROM degree_courses"
export_to_csv(unis, courses) ==
    [universities |-> fetchall(unis), courses |-> fetchall(courses)]

\* DatabaseManager.export_to_excel: the sheets Universities, Courses, Modules
\* and Requirements, one line per row of the four tables
export_to_excel(unis, courses, modules, requirements) ==
    [universities |-> fetchall(unis),
     courses |-> fetchall(courses),
     modules |-> fetchall(modules),
     requirements |-> fetchall(requirements)]

\* the grouping with an inner JOIN
by_university_rows_inner(unis, courses) ==
    {<<u.university_name,
       Cardinality({c \in courses : c.university_id = u.university_id})>> :
        u \in {v \in unis : \E c \in courses : c.university_id = v.university_id}}

\* SELECT u.university_name, COUNT(c.degree_course_code) FROM universities u
\* LEFT JOIN degree_courses c ON u.university_id = c.university_id
\* GROUP BY u.university_id: one (name, count) pair per institution
by_university_rows(unis, courses) ==
    {<<u.university_name,
       Cardinality({c \in courses : c.university_id = u.university_id})>> :
        u \in unis}

\* SELECT course_area, COUNT(*) FROM degree_courses GROUP BY course_area
by_area_rows(courses) ==
    {<<a, Cardinality({c \in courses : c.course_area = a})>> :
        a \in {c.course_area : c \in courses}}

\* dict(cursor.fetchall()) of (key, value) pairs: one entry per key; of two
\* pairs with the same key the later one stays
dict(pairs) ==
    [k \in {p[1] : p \in pairs} |-> (CHOOSE p \in pairs : p[1] = k)[2]]

\* DatabaseManager.get_statistics
get_statistics(unis, courses) ==
    [universities |-> Cardinality(unis),
     courses |-> Cardinality(courses),
     by_university |-> dict(by_university_rows(unis, courses)),
     by_area |-> dict(by_area_rows(courses))]


(***************************************************************************)
(* Extraction from one fetched page.  A page is what the HTML parser finds *)
(* in it: the caller draws it from the pages the site may serve.  The p-th *)
(* item of a page gets its code at microsecond (t0 + p * step) % Micro:    *)
(* step = 0 is a clock that has not advanced between two readings.         *)
(***************************************************************************)
micro_at(t0, step, p) == (t0 + p * step) % Micro

RECURSIVE concat(_)
concat(seqs) == IF seqs = <<>> THEN <<>> ELSE Head(seqs) \o concat(Tail(seqs))

\* BolognaScraper.get_courses, "for item in course_items[:10]"
ItemLimit == 10

\* soup.find_all('div', class_='course-item') or soup.find_all('a', href=...)
Bologna_course_items(page) == IF page.divs # <<>> THEN page.divs ELSE page.anchors

Bologna_extract(page, degree_type, t0, step) ==
    LET items == Slice(Bologna_course_items(page), ItemLimit)
    IN  concat([p \in 1..Len(items) |->
            Bologna_parse_course_item(items[p], degree_type, micro_at(t0, step, p))])

\* soup.find_all('div', class_='programme-item') or
\* soup.find_all('article', class_='course')
LSE_course_items(page) == IF page.divs # <<>> THEN page.divs ELSE page.articles

LSE_extract(page, t0, step) ==
    LET items == Slice(LSE_course_items(page), ItemLimit)
    IN  concat([p \in 1..Len(items) |->
            LSE_parse_course_item(items[p], micro_at(t0, step, p))])

\* fix_lse_scraper.py get_courses, "Check if it's a programme link".  A link
\* is [href, text: the raw link text].
LSEFix_is_programme_link(link) ==
    /\ is_programme_href(link.href)
    /\ Len(clean_text(link.text)) > 10
    /\ ContainsAny(clean_text(link.text), LinkIndicators)

LSEFix_extract_links(links, type, t0, step) ==
    concat([p \in 1..Len(links) |->
        IF LSEFix_is_programme_link(links[p])
        THEN LSEFix_create_course_from_text(clean_text(links[p].text),
                 links[p].href, type, micro_at(t0, step, p))
        ELSE None])

\* LSEScraper._is_valid_course_name
MinNameLen == 5
MaxNameLen == 150

LSEFix_is_valid_course_name(text) ==
    /\ text # <<>>
    /\ Len(text) >= MinNameLen
    /\ Len(text) <= MaxNameLen
    /\ ContainsAny(text, NameIndicators) \/ ContainsAny(text, NameSubjects)
    /\ ~ ContainsAny(text, NameExclude)
    /\ ~ isupper(text)

\* LSEScraper._extract_course_from_element.  An element is [cands: the texts
\* of its first h3, h2, h4 and a, those that exist, in that order; href:
\* Optional href of its first link].
LSEFix_extract_course_from_element(element, micro) ==
    LET names == [k \in 1..Len(element.cands) |-> clean_text(element.cands[k])]
        valid == {k \in 1..Len(names) : LSEFix_is_valid_course_name(names[k])}
    IN  IF valid = {} THEN None
        ELSE LSEFix_create_course_from_text(
                 names[CHOOSE k \in valid : \A m \in valid : k <= m],
                 IF element.href = None THEN "" ELSE element.href[1],
                 "general", micro)

\* "for elem in elements[:20]"
ElementLimit == 20

LSEFix_extract_elements(elements, t0, step) ==
    LET elems == Slice(elements, ElementLimit)
    IN  concat([p \in 1..Len(elems) |->
            LSEFix_extract_course_from_element(elems[p], micro_at(t0, step, p))])

\* LSEScraper._fallback_extraction
LSEFix_fallback_extraction(t0, step) ==
    concat([p \in 1..Len(known_programmes) |->
        LSEFix_create_course_from_text(known_programmes[p][1], "",
            known_programmes[p][2], micro_at(t0, step, p))])

\* fix_lse_scraper.py get_courses, "Remove duplicates": the first course of
\* each non-empty name, in list order
RECURSIVE remove_duplicates(_, _)
remove_duplicates(courses, seen) ==
    IF courses = <<>> THEN <<>>
    ELSE LET name == Head(courses).degree_course_name
         IN  IF name # <<>> /\ name \notin seen
             THEN <<Head(courses)>> \o remove_duplicates(Tail(courses), seen \cup {name})
             ELSE remove_duplicates(Tail(courses), seen)

\* "return unique_courses[:30]"
MaxCourses == 30

\* "if len(courses) >= 5: break"
MinCourses == 5

\* a tail that tops a short list up from the catalogue
LSEFix_finish_padded(courses, t0, step) ==
    LET all == IF Len(courses) < MinCourses
               THEN courses \o LSEFix_fallback_extraction(t0, step)
               ELSE courses
    IN  Slice(remove_duplicates(all, {}), MaxCourses)

\* the tail of fix_lse_scraper.py get_courses: fallback, deduplication, cap
LSEFix_finish(courses, t0, step) ==
    LET all == IF courses = <<>> THEN LSEFix_fallback_extraction(t0, step)
               ELSE courses
    IN  Slice(remove_duplicates(all, {}), MaxCourses)

LSEFix_urls_to_try ==
    << [url |-> "/study-at-lse/undergraduate/degree-programmes-2025",
        type |-> "undergraduate",
        selectors |-> <<"a[href*=\"/study-at-lse/undergraduate/offer-holder\"]",
                        "div.contentSectionCTA a", "a.cta__link">>],
       [url |-> "/study-at-lse/graduate/taught-programmes-2025",
        type |-> "graduate",
        selectors |-> <<"a[href*=\"/study-at-lse/graduate/degree-programmes\"]",
                        "div.contentSectionCTA a", "a.cta__link">>],
       [url |-> "/programmes/search-courses",
        type |-> "search",
        selectors |-> <<"div.programme-item", "article.course", "div.search-result">>] >>

Bologna_urls ==
    << [degree_type |-> "first_cycle",
        url |-> "/en/study/first-and-single-cycle-degree"],
       [degree_type |-> "second_cycle",
        url |-> "/en/study/second-cycle-degree"] >>


(***************************************************************************)
(* The sites.  site.texts are the raw texts a page may carry, site.items   *)
(* the most items one page (or one selector) yields, site.starts the       *)
(* microseconds at which the first code of a page may be generated,        *)
(* site.steps by how much the clock may advance from one item to the next. *)
(***************************************************************************)
MaxItems == 2
MaxNow == 1

t_BSc_Economics == <<"B", "S", "c", " ", "E", "c", "o", "n", "o", "m", "i", "c", "s">>
t_BSc_Finance == <<"B", "S", "c", " ", " ", "F", "i", "n", "a", "n", "c", "e", " ">>
t_Menu == <<"M", "e", "n", "u">>
t_MSc_Finance == <<"M", "S", "c", " ", "F", "i", "n", "a", "n", "c", "e">>

RichSite == [texts |-> {t_BSc_Economics, t_BSc_Finance, t_Menu},
             items |-> MaxItems, starts |-> {0, Micro - 1}, steps |-> {0, 1}]
LeanSite == [texts |-> {t_BSc_Economics}, items |-> 1, starts |-> {0},
             steps |-> {0, 1}]
\* a site read with a clock that advances by one microsecond per item
SteadySite == [texts |-> {t_BSc_Economics, t_BSc_Finance},
               items |-> MaxItems, starts |-> {0}, steps |-> {1}]

\* a listing long enough for one page to reach the minimum record count
ListingSite == [texts |-> {t_BSc_Economics}, items |-> MinCourses,
                starts |-> {0}, steps |-> {1}]
\* a listing where two pages can reach the minimum record count, one cannot
CountSite == [texts |-> {t_BSc_Economics}, items |-> MinCourses - 2,
              starts |-> {0}, steps |-> {1}]

SeqsUpTo(S, n) == UNION {[1..k -> S] : k \in 0..n}

\* the microsecond read for a page's first item: just after a second began,
\* or its last microsecond
Starts == site.starts
\* between two readings the clock did not advance (0), or advanced
Steps == site.steps

BolognaHref == "/en/study/programme-degree"

BolognaPages ==
    LET anchors == {[tag |-> "a", text |-> Some(t), href |-> BolognaHref] :
                       t \in site.texts}
        divs == anchors \cup {[tag |-> "div", text |-> None, href |-> ""]}
    IN  {[divs |-> <<>>, anchors |-> a] : a \in SeqsUpTo(anchors, site.items)}
        \cup {[divs |-> d, anchors |-> <<>>] :
                 d \in SeqsUpTo(divs, site.items) \ {<<>>}}

LSEPages ==
    LET items == {[title |-> Some(t), href |-> Some(ProgrammeHref)] :
                     t \in site.texts}
                 \cup {[title |-> None, href |-> None]}
    IN  {[divs |-> <<>>, articles |-> a] : a \in SeqsUpTo(items, site.items)}
        \cup {[divs |-> d, articles |-> <<>>] :
                 d \in SeqsUpTo(items, site.items) \ {<<>>}}

LSEFixLinkPages ==
    SeqsUpTo({[href |-> h, text |-> t] :
                 h \in {ProgrammeHref, OtherHref}, t \in site.texts},
             site.items)

LSEFixElements ==
    {[cands |-> c, href |-> None] : c \in SeqsUpTo(site.texts, 1)}
    \cup {[cands |-> <<t_Menu, t>>, href |-> Some(AbsoluteHref)] : t \in site.texts}

LSEFixSelections == SeqsUpTo(LSEFixElements, site.items)


(***************************************************************************)
(* get_courses(), one page load per step.  gc.courses is the list being    *)
(* accumulated, gc.result the list returned.                               *)
(***************************************************************************)
gcOthers == <<universities, degree_courses, learning_modules,
              admission_requirements, now, stats, exported, lastSave, config,
              patched, pc, todo, cur, scrapers, uni_info, started,
              raisedIn, lost, site, cli, inst, cin, cout>>

gc_idle == [pc |-> "idle", key |-> "", i |-> 1, j |-> 1,
            courses |-> <<>>, result |-> <<>>, loaded |-> <<>>,
            tried |-> <<>>]

\* g, with the request for the current URL logged: ok when a document came
requested(g, ok) == [g EXCEPT !.loaded = Append(@, [i |-> gc.i, ok |-> ok])]

\* g, with the outcome of the current selector of the current page logged:
\* the number of courses it added, or that it raised.  The log lasts as long
\* as the loop's variables do, to the end of get_courses.
selected(g, found, raised) ==
    [g EXCEPT !.tried = Append(@, [j |-> gc.j, found |-> found,
                                   raised |-> raised])]

gc_start(key) == [gc_idle EXCEPT !.pc = "url", !.key = key]

gc_return(courses) ==
    [gc EXCEPT !.pc = "returned", !.courses = courses, !.result = courses]

\* UniversityScraper.fetch_page returned a document (Some) or None
Fetched(pages) == {None} \cup {Some(p) : p \in pages}

\* BolognaScraper.get_courses: one iteration of "for degree_type, url_path"
GcBolognaUrl ==
    /\ pc = "get_courses" /\ gc.pc = "url" /\ gc.key = "bologna"
    /\ \E soup \in Fetched(BolognaPages), t0 \in Starts, step \in Steps :
        LET found == IF soup = None THEN <<>>
                     ELSE Bologna_extract(soup[1], Bologna_urls[gc.i].degree_type,
                                          t0, step)
            courses == gc.courses \o found
        IN  gc' = requested(IF gc.i < Len(Bologna_urls)
                            THEN [gc EXCEPT !.i = @ + 1, !.courses = courses]
                            ELSE gc_return(courses),
                            soup # None)
    /\ UNCHANGED gcOthers

\* LSEScraper.get_courses of university_scraper.py
GcLSE ==
    /\ pc = "get_courses" /\ gc.pc = "url" /\ gc.key = "lse" /\ ~patched
    /\ \E soup \in Fetched(LSEPages), t0 \in Starts, step \in Steps :
        gc' = requested(gc_return(IF soup = None THEN <<>>
                                  ELSE LSE_extract(soup[1], t0, step)),
                        soup # None)
    /\ UNCHANGED gcOthers

\* no "if len(courses) >= 5: break": every URL of the list is tried
LSEFix_after_url_all(courses) ==
    IF gc.i = Len(LSEFix_urls_to_try)
    THEN [gc EXCEPT !.pc = "finish", !.courses = courses]
    ELSE [gc EXCEPT !.pc = "url", !.i = @ + 1, !.j = 1, !.courses = courses]

\* a URL that added nothing tried a second time
LSEFix_after_url_retry(courses) ==
    IF courses = gc.courses /\ ~ \E p \in DOMAIN gc.loaded : gc.loaded[p].i = gc.i
    THEN [gc EXCEPT !.pc = "url", !.j = 1]
    ELSE IF Len(courses) >= MinCourses \/ gc.i = Len(LSEFix_urls_to_try)
    THEN [gc EXCEPT !.pc = "finish", !.courses = courses]
    ELSE [gc EXCEPT !.pc = "url", !.i = @ + 1, !.j = 1, !.courses = courses]

\* fix_lse_scraper.py get_courses, "if len(courses) >= 5: break" and the end
\* of the loop over urls_to_try
LSEFix_after_url(courses) ==
    IF Len(courses) >= MinCourses \/ gc.i = Len(LSEFix_urls_to_try)
    THEN [gc EXCEPT !.pc = "finish", !.courses = courses]
    ELSE [gc EXCEPT !.pc = "url", !.i = @ + 1, !.j = 1, !.courses = courses]

\* one iteration of "for url_info in urls_to_try" with no rendering session:
\* nothing is loaded
GcFixSkipUrl ==
    /\ pc = "get_courses" /\ gc.pc = "url" /\ gc.key = "lse" /\ patched
    /\ ~ (scrapers["lse"].use_selenium /\ scrapers["lse"].driver)
    /\ gc' = LSEFix_after_url(gc.courses)
    /\ UNCHANGED gcOthers

\* one iteration with a session: driver.get(url) and the extraction from it.
\* An exception in the try block is logged and the iteration ends.
GcFixUrl ==
    /\ pc = "get_courses" /\ gc.pc = "url" /\ gc.key = "lse" /\ patched
    /\ scrapers["lse"].use_selenium /\ scrapers["lse"].driver
    /\ \/ gc' = requested(LSEFix_after_url(gc.courses), FALSE)
       \/ /\ LSEFix_urls_to_try[gc.i].type \in {"undergraduate", "graduate"}
          /\ \E links \in LSEFixLinkPages, t0 \in Starts, step \in Steps :
                gc' = requested(LSEFix_after_url(gc.courses \o
                                    LSEFix_extract_links(links,
                                        LSEFix_urls_to_try[gc.i].type, t0, step)),
                                TRUE)
       \/ /\ LSEFix_urls_to_try[gc.i].type \notin {"undergraduate", "graduate"}
          /\ gc' = requested([gc EXCEPT !.pc = "selector", !.j = 1], TRUE)
    /\ UNCHANGED gcOthers

\* "if courses: break" of the loop over the selectors: courses is the list
\* get_courses has accumulated over all the URLs so far
LSEFix_after_selector(courses) ==
    IF courses # <<>> \/ gc.j = Len(LSEFix_urls_to_try[gc.i].selectors)
    THEN LSEFix_after_url(courses)
    ELSE [gc EXCEPT !.j = @ + 1, !.courses = courses]

\* one iteration of "for selector in url_info['selectors']"
GcFixSelector ==
    /\ pc = "get_courses" /\ gc.pc = "selector"
    /\ \/ gc' = selected(LSEFix_after_url(gc.courses), 0, TRUE)
       \/ \E elements \in LSEFixSelections, t0 \in Starts, step \in Steps :
            LET found == LSEFix_extract_elements(elements, t0, step)
            IN  gc' = selected(LSEFix_after_selector(gc.courses \o found),
                               Len(found), FALSE)
    /\ UNCHANGED gcOthers

\* the fallback, the deduplication and the return
GcFixFinish ==
    /\ pc = "get_courses" /\ gc.pc = "finish"
    /\ \E t0 \in Starts, step \in Steps :
        gc' = [gc EXCEPT !.pc = "returned", !.tried = <<>>,
                         !.result = LSEFix_finish(gc.courses, t0, step)]
    /\ UNCHANGED gcOthers

\* an exception leaves get_courses through code no try block covers
GcRaise ==
    /\ pc = "get_courses"
    /\ \/ gc.pc = "url" /\ ~ (gc.key = "lse" /\ patched)
       \/ gc.pc = "finish"
    /\ gc' = [gc EXCEPT !.pc = "raised", !.tried = <<>>]
    /\ UNCHANGED gcOthers


(***************************************************************************)
(* main(config): the orchestrator.                                         *)
(***************************************************************************)
NoScraper == [use_selenium |-> FALSE, driver |-> FALSE]
NoConfig == [universities |-> {}, use_selenium |-> FALSE]
NoLoss ==
    [k \in {"bologna", "lse"} |-> [universities |-> FALSE, degree_courses |-> FALSE]]

\* no command line: main() or an object called directly
NoArgs == [config |-> "missing", universities |-> None, export |-> None,
           selenium |-> FALSE, no_scrape |-> FALSE, stats |-> FALSE,
           clean |-> FALSE]
NoCli == [pc |-> "none", args |-> NoArgs, exit |-> None, how |-> "",
          signal |-> FALSE, cleaned |-> FALSE,
          universities |-> {}, degree_courses |-> {}]
\* no scraper object followed from construction to teardown
NoInst == [phase |-> "none", class |-> "", use_selenium |-> FALSE,
           driver |-> None, created |-> 0, quit |-> {}, calls |-> 0]

ScraperKeys == <<"bologna", "lse">>

Configs ==
    {[universities |-> u, use_selenium |-> s] :
        u \in SUBSET {"bologna", "lse"}, s \in BOOLEAN}

university_info(key) ==
    IF key = "bologna" THEN Bologna_university_info ELSE LSE_university_info

\* the save call just committed: op and argument, whether the save call
\* before it had the same op and argument
SaveRecord(op, arg) ==
    Some([op |-> op, arg |-> arg,
          repeat |-> lastSave # None /\ lastSave[1].op = op /\ lastSave[1].arg = arg])


\* every class starting a browser session in its constructor
new_scraper_eager(key, cfg, chrome) ==
    [use_selenium |-> chrome, driver |-> chrome]

\* UniversityScraper.__init__ and, for the class of fix_lse_scraper.py, its
\* __init__: use_selenium forced on and setup_selenium() called, which leaves
\* a driver (chrome = TRUE) or clears use_selenium
new_scraper(key, cfg, chrome) ==
    IF key = "lse" /\ patched
    THEN [use_selenium |-> chrome, driver |-> chrome]
    ELSE [use_selenium |-> cfg.use_selenium, driver |-> FALSE]

\* main() is called: DatabaseManager(...) and the scrapers are constructed
MainStart ==
    /\ pc = "idle"
    /\ \E cfg \in Configs, chrome \in BOOLEAN :
        /\ config' = cfg
        /\ scrapers' = [k \in {"bologna", "lse"} |-> new_scraper(k, cfg, chrome)]
    /\ todo' = ScraperKeys
    /\ started' = [k \in {"bologna", "lse"} |-> 0]
    /\ raisedIn' = [k \in {"bologna", "lse"} |-> None]
    /\ lost' = NoLoss
    /\ pc' = "loop"
    /\ cur' = None /\ uni_info' = None /\ gc' = gc_idle
    /\ UNCHANGED <<storeVars, patched, site, cli, inst, cin, cout>>

\* "for uni_name, scraper in scrapers.items()": the next key; one that is
\* not configured is passed over
MainLoop ==
    /\ pc = "loop" /\ todo # <<>>
    /\ todo' = Tail(todo)
    /\ IF Head(todo) \in config.universities
       THEN /\ cur' = Some(Head(todo))
            /\ started' = [started EXCEPT ![Head(todo)] = @ + 1]
            /\ pc' = "setup_selenium"
       ELSE UNCHANGED <<cur, started, pc>>
    /\ UNCHANGED <<storeVars, config, patched, scrapers, uni_info,
                   raisedIn, lost, gc, site, cli, inst, cin, cout>>

university_id_of(key) == university_info(key).university_id

\* lost, after a step that leaves the tables as unis and courses
losses(unis, courses) ==
    [k \in {"bologna", "lse"} |->
        [universities |->
            \/ lost[k].universities
            \/ \E r \in universities :
                    r.university_id = university_id_of(k) /\ r \notin unis,
         degree_courses |->
            \/ lost[k].degree_courses
            \/ \E r \in degree_courses :
                    r.university_id = university_id_of(k) /\ r \notin courses]]

\* the loop body is left: back to the "for", the iteration's locals dropped
EndIteration ==
    /\ pc' = "loop"
    /\ cur' = None /\ uni_info' = None /\ gc' = gc_idle

\* an exception is raised at the current step of the try block
Raise ==
    /\ raisedIn' = [raisedIn EXCEPT ![cur[1]] = Some(pc)]
    /\ pc' = "except"

\* scraper.setup_selenium()
MainSetupSelenium ==
    /\ pc = "setup_selenium"
    /\ \/ /\ ~ scrapers[cur[1]].use_selenium
          /\ pc' = "get_university_info"
          /\ UNCHANGED <<scrapers, raisedIn>>
       \/ /\ scrapers[cur[1]].use_selenium
          /\ \E chrome \in BOOLEAN :
                scrapers' = [scrapers EXCEPT ![cur[1]] =
                                [use_selenium |-> chrome,
                                 driver |-> IF chrome THEN TRUE ELSE @.driver]]
          /\ pc' = "get_university_info"
          /\ UNCHANGED raisedIn
       \/ /\ scrapers[cur[1]].use_selenium
          /\ Raise
          /\ UNCHANGED scrapers
    /\ UNCHANGED <<storeVars, config, patched, todo, cur, uni_info,
                   started, lost, gc, site, cli, inst, cin, cout>>

\* uni_info = scraper.get_university_info()
MainGetUniversityInfo ==
    /\ pc = "get_university_info"
    /\ \/ /\ uni_info' = Some(university_info(cur[1]))
          /\ pc' = "save_university"
          /\ UNCHANGED raisedIn
       \/ Raise /\ UNCHANGED uni_info
    /\ UNCHANGED <<storeVars, config, patched, todo, cur, scrapers,
                   started, lost, gc, site, cli, inst, cin, cout>>

\* db.save_university(uni_info): committed, or raised and rolled back
MainSaveUniversity ==
    /\ pc = "save_university"
    /\ \/ /\ universities' = save_university(universities, uni_info[1], now)
          /\ lastSave' = SaveRecord("save_university", uni_info[1])
          /\ stats' = None /\ exported' = None
          /\ pc' = "get_courses"
          /\ gc' = gc_start(cur[1])
          /\ UNCHANGED raisedIn
       \/ /\ universities' = rolled_back(universities,
                                 save_university(universities, uni_info[1], now))
          /\ Raise
          /\ UNCHANGED <<lastSave, gc, stats, exported>>
    /\ lost' = losses(universities', degree_courses)
    /\ UNCHANGED <<degree_courses, learning_modules, admission_requirements,
                   now, config, patched, todo, cur, scrapers, uni_info,
                   started, site, cli, inst, cin, cout>>

\* courses = scraper.get_courses() raised
MainGetCoursesRaised ==
    /\ pc = "get_courses" /\ gc.pc = "raised"
    /\ Raise
    /\ UNCHANGED <<storeVars, config, patched, todo, cur, scrapers,
                   uni_info, started, lost, gc, site, cli, inst, cin, cout>>

\* "if courses: db.save_courses(courses)": committed, or raised and rolled
\* back; "else: logger.warning(...)"
MainSaveCourses ==
    /\ pc = "get_courses" /\ gc.pc = "returned"
    /\ \/ /\ gc.result # <<>>
          /\ degree_courses' = save_courses(degree_courses, gc.result, now)
          /\ lastSave' = SaveRecord("save_courses", gc.result)
          /\ stats' = None /\ exported' = None
          /\ EndIteration
          /\ UNCHANGED raisedIn
       \/ /\ gc.result # <<>>
          /\ \E n \in 0..(Len(gc.result) - 1) :
                degree_courses' =
                    rolled_back(degree_courses,
                        save_courses(degree_courses, SubSeq(gc.result, 1, n), now))
          /\ raisedIn' = [raisedIn EXCEPT ![cur[1]] = Some("save_courses")]
          /\ pc' = "except"
          /\ UNCHANGED <<lastSave, stats, exported, cur, uni_info, gc>>
       \/ /\ gc.result = <<>>
          /\ EndIteration
          /\ UNCHANGED <<degree_courses, lastSave, raisedIn, stats, exported>>
    /\ lost' = losses(universities, degree_courses')
    /\ UNCHANGED <<universities, learning_modules, admission_requirements,
                   now, config, patched, todo, scrapers, started, site, cli, inst,
                   cin, cout>>

\* a handler that leaves the loop
except_break(rest) == <<>>

\* "except Exception as e: logger.error(...); continue": the keys still to
\* visit after the handler
except_continue(rest) == rest

MainExcept ==
    /\ pc = "except"
    /\ todo' = except_continue(todo)
    /\ EndIteration
    /\ UNCHANGED <<storeVars, config, patched, scrapers, started,
                   raisedIn, lost, site, cli, inst, cin, cout>>

\* after the loop: stats = db.get_statistics(); return db.  The call's
\* locals (config, scrapers, the run's bookkeeping) end with it.
MainStatistics ==
    /\ pc = "loop" /\ todo = <<>>
    /\ stats' = Some(get_statistics(universities, degree_courses))
    /\ pc' = "done"
    /\ config' = NoConfig
    /\ scrapers' = [k \in {"bologna", "lse"} |-> NoScraper]
    /\ started' = [k \in {"bologna", "lse"} |-> 0]
    /\ raisedIn' = [k \in {"bologna", "lse"} |-> None]
    /\ lost' = NoLoss
    /\ UNCHANGED <<universities, degree_courses, learning_modules,
                   admission_requirements, now, exported, lastSave, patched,
                   todo, cur, uni_info, gc, site, cli, inst, cin, cout>>

\* a second passes.  The clock is let advance before main() is called and
\* between calls of the store, not inside a run of main(): no step of a run reads the time
\* another step of the same run wrote.
Tick ==
    /\ pc = "idle"
    /\ now < MaxNow
    /\ now' = now + 1
    /\ UNCHANGED <<universities, degree_courses, learning_modules,
                   admission_requirements, stats, exported, lastSave, mainVars,
                   gc, site, cli, inst, cin, cout>>


(***************************************************************************)
(* DatabaseManager called directly.                                        *)
(***************************************************************************)
\* programmes as _create_course_from_text builds them
c_Economics_0 == LSEFix_create_course_from_text(t_BSc_Economics, "", "undergraduate", 0)[1]
c_Finance_0 == LSEFix_create_course_from_text(t_BSc_Finance, "", "undergraduate", 0)[1]
c_Finance_1 == LSEFix_create_course_from_text(t_BSc_Finance, "", "undergraduate", 1)[1]
c_MSc_Finance_0 == LSEFix_create_course_from_text(t_MSc_Finance, "", "graduate", 0)[1]

\* the lists save_courses is called with: empty, one programme, programmes
\* of distinct codes, two programmes of one code, one programme twice
SampleBatches ==
    { <<>>,
      <<c_Economics_0>>,
      <<c_Finance_1>>,
      <<c_Economics_0, c_MSc_Finance_0>>,
      <<c_Finance_1, c_MSc_Finance_0, c_Economics_0>>,
      <<c_Economics_0, c_Finance_0>>,
      <<c_Economics_0, c_Economics_0>> }

DbSaveUniversity ==
    /\ \E data \in {Bologna_university_info, LSE_university_info} :
        /\ universities' = save_university(universities, data, now)
        /\ lastSave' = SaveRecord("save_university", data)
    /\ stats' = None /\ exported' = None
    /\ UNCHANGED <<degree_courses, learning_modules, admission_requirements,
                   now, mainVars, gc, site, cli, inst, cin, cout>>

\* save_courses either runs its loop to the end and commits, or the n + 1st
\* course of the list raises (a key it lacks, or an error of the store) after
\* n INSERT OR REPLACE statements, and the with-block rolls them back
DbSaveCourses ==
    /\ \E courses \in SampleBatches :
        \/ /\ degree_courses' = save_courses(degree_courses, courses, now)
           /\ lastSave' = SaveRecord("save_courses", courses)
        \/ \E n \in 0..(Len(courses) - 1) :
             /\ degree_courses' =
                    rolled_back(degree_courses,
                                save_courses(degree_courses,
                                             SubSeq(courses, 1, n), now))
             /\ lastSave' = Some([op |-> "save_courses raised",
                                  arg |-> courses, repeat |-> FALSE])
    /\ stats' = None /\ exported' = None
    /\ UNCHANGED <<universities, learning_modules, admission_requirements,
                   now, mainVars, gc, site, cli, inst, cin, cout>>

\* the four tables after a method that only reads them
ReadOnly ==
    /\ universities' = after_select(universities)
    /\ degree_courses' = after_select(degree_courses)
    /\ learning_modules' = after_select(learning_modules)
    /\ admission_requirements' = after_select(admission_requirements)

\* db.export_to_json(output_file): the document is written, or an exception
\* (the directory is missing, the disk is full) leaves the method
DbExportToJson ==
    /\ \/ exported' = Some(export_to_json(universities, degree_courses,
                                          learning_modules, admission_requirements))
       \/ exported' = None
    /\ ReadOnly
    /\ UNCHANGED <<now, stats, lastSave, mainVars, gc, site, cli, inst, cin, cout>>

\* db.export_to_csv(output_dir)
DbExportToCsv ==
    /\ \/ exported' = Some(export_to_csv(universities, degree_courses))
       \/ exported' = None
    /\ ReadOnly
    /\ UNCHANGED <<now, stats, lastSave, mainVars, gc, site, cli, inst, cin, cout>>

\* db.export_to_excel(output_file)
DbExportToExcel ==
    /\ \/ exported' = Some(export_to_excel(universities, degree_courses,
                                           learning_modules, admission_requirements))
       \/ exported' = None
    /\ ReadOnly
    /\ UNCHANGED <<now, stats, lastSave, mainVars, gc, site, cli, inst, cin, cout>>

\* db.get_statistics(): the dict, or an exception (the file cannot be opened)
DbGetStatistics ==
    /\ \/ stats' = Some(get_statistics(universities, degree_courses))
       \/ stats' = None
    /\ ReadOnly
    /\ UNCHANGED <<now, exported, lastSave, mainVars, gc, site, cli, inst, cin, cout>>

(***************************************************************************)
(* The classifiers called directly.                                        *)
(***************************************************************************)
MaxWords == 2

Words ==
    << <<"B", "S", "c">>,
       <<"B", "A">>,
       <<"M", "S", "c">>,
       <<"M", "A">>,
       <<"M", "R", "e", "s">>,
       <<"M", "P", "h", "i", "l">>,
       <<"L", "L", "M">>,
       <<"P", "h", "D">>,
       <<"E", "c", "o", "n", "o", "m", "i", "c", "s">>,
       <<"L", "a", "w">> >>

ClassifyNames ==
    {join(<<" ">>, ws) : ws \in SeqsUpTo({Words[k] : k \in 1..Len(Words)}, MaxWords) \ {<<>>}}

ProgTypes == {"undergraduate", "graduate", "general"}

ClassifyFix ==
    /\ cin = None
    /\ \E text \in ClassifyNames, prog_type \in ProgTypes :
        /\ cin' = Some([fn |-> "_create_course_from_text", text |-> text,
                        prog_type |-> prog_type])
        /\ cout' = LSEFix_create_course_from_text(text, "", prog_type, 0)
    /\ UNCHANGED <<storeVars, mainVars, gc, site, cli, inst>>

ClassifyLSE ==
    /\ cin = None
    /\ \E text \in ClassifyNames :
        /\ cin' = Some([fn |-> "_parse_course_item", text |-> text,
                        prog_type |-> ""])
        /\ cout' = LSE_parse_course_item([title |-> Some(text), href |-> None], 0)
    /\ UNCHANGED <<storeVars, mainVars, gc, site, cli, inst>>

\* the caller takes the result
ClassifyReturn ==
    /\ cin # None
    /\ cin' = None /\ cout' = None
    /\ UNCHANGED <<storeVars, mainVars, gc, site, cli, inst>>

(***************************************************************************)
(* run_scraper.py: main_cli().  cli.pc is its position, cli.args the parsed *)
(* command line (args.config is what the file named by --config is),       *)
(* cli.exit the exit status of the process once it has ended and cli.how   *)
(* the way it ended, cli.signal whether a KeyboardInterrupt was delivered, *)
(* cli.universities and cli.degree_courses the rows the store had when the *)
(* command started.                                                        *)
(***************************************************************************)
ConfigFiles == {"well-formed", "missing", "malformed", "unreadable"}

\* the content of the well-formed configuration file
FileConfig == [universities |-> {"lse"}, use_selenium |-> TRUE]

\* the dict load_config returns when the file is missing
DefaultConfig == [universities |-> {"bologna", "lse"}, use_selenium |-> FALSE]

\* the command lines: every combination of the options when main() is not
\* reached (--no-scrape, --stats without --export, or a configuration file
\* that ends the process); when it is, --clean and --stats, which act before
\* it, are left out and the export is JSON or none
CommandLines ==
    {a \in [config : ConfigFiles,
            universities : {None, Some({"bologna"})},
            export : {None, Some("json"), Some("csv"), Some("excel"), Some("all")},
            selenium : BOOLEAN, no_scrape : BOOLEAN, stats : BOOLEAN,
            clean : BOOLEAN] :
        \/ a.no_scrape
        \/ a.stats /\ a.export = None
        \/ a.config \in {"malformed", "unreadable"}
        \/ ~ a.clean /\ ~ a.stats /\ a.export \in {None, Some("json")}}

\* a load_config that falls back to the defaults on a malformed file
load_config_lenient(file) ==
    CASE file = "well-formed" -> [config |-> Some(FileConfig), exit |-> None]
      [] file = "unreadable" -> [config |-> None, exit |-> Some(1)]
      [] OTHER -> [config |-> Some(DefaultConfig), exit |-> None]

\* load_config: the dict returned, or the status the process exits with:
\* sys.exit(1) on json.JSONDecodeError; an OSError other than
\* FileNotFoundError is caught nowhere and ends the interpreter with status 1
load_config(file) ==
    CASE file = "well-formed" -> [config |-> Some(FileConfig), exit |-> None]
      [] file = "missing" -> [config |-> Some(DefaultConfig), exit |-> None]
      [] file = "malformed" -> [config |-> None, exit |-> Some(1)]
      [] file = "unreadable" -> [config |-> None, exit |-> Some(1)]

\* "if args.selenium: ..." and "if args.universities and 'all' not in ..."
overrides(cfg, args) ==
    [universities |-> IF args.universities # None THEN args.universities[1]
                      ELSE cfg.universities,
     use_selenium |-> args.selenium \/ cfg.use_selenium]

\* main_cli has ended: the exit status and the way
ended(status, how) ==
    [cli EXCEPT !.pc = "exited", !.exit = Some(status), !.how = how]

\* a command that scrapes whatever --no-scrape says
scrape_always(args) == TRUE

\* "if not args.no_scrape:"
scrape_wanted(args) == ~ args.no_scrape

\* config = load_config(args.config)
CliLoadConfig ==
    /\ cli.pc = "load_config"
    /\ LET r == load_config(cli.args.config)
       IN  IF r.exit # None
           THEN cli' = ended(r.exit[1], "load_config") /\ UNCHANGED config
           ELSE cli' = [cli EXCEPT !.pc = "init"] /\ config' = r.config[1]
    /\ UNCHANGED <<storeVars, patched, pc, todo, cur, scrapers, uni_info,
                   started, raisedIn, lost, gc, site, inst, cin, cout>>

\* the overrides, create_directories, and clean_database(config) (the file
\* is renamed and a new one initialised) or DatabaseManager(...) (CREATE
\* TABLE IF NOT EXISTS)
CliInit ==
    /\ cli.pc = "init"
    /\ config' = overrides(config, cli.args)
    /\ IF cli.args.clean
       THEN /\ universities' = {} /\ degree_courses' = {}
            /\ learning_modules' = {} /\ admission_requirements' = {}
            /\ cli' = [cli EXCEPT !.pc = "stats", !.cleaned = TRUE]
       ELSE /\ UNCHANGED <<universities, degree_courses, learning_modules,
                           admission_requirements>>
            /\ cli' = [cli EXCEPT !.pc = "stats"]
    /\ UNCHANGED <<now, stats, exported, lastSave, patched, pc, todo, cur,
                   scrapers, uni_info, started, raisedIn, lost, gc, site, inst,
                   cin, cout>>

\* "if args.stats: show_statistics(db); if not args.export and not
\* args.no_scrape: return"
CliStats ==
    /\ cli.pc = "stats"
    /\ IF cli.args.stats
       THEN /\ stats' = Some(get_statistics(universities, degree_courses))
            /\ cli' = IF cli.args.export = None /\ ~ cli.args.no_scrape
                      THEN ended(0, "statistics")
                      ELSE [cli EXCEPT !.pc = "scrape"]
       ELSE /\ UNCHANGED stats
            /\ cli' = [cli EXCEPT !.pc = "scrape"]
    /\ ReadOnly
    /\ UNCHANGED <<now, exported, lastSave, mainVars, gc, site, inst, cin, cout>>

\* "if not args.no_scrape: try: db = main(config)": main() is entered, its
\* DatabaseManager(...) and its scrapers constructed; or scraping is skipped
CliScrape ==
    /\ cli.pc = "scrape"
    /\ IF scrape_wanted(cli.args)
       THEN /\ cli' = [cli EXCEPT !.pc = "main"]
            /\ \E chrome \in BOOLEAN :
                  scrapers' = [k \in {"bologna", "lse"} |->
                                  new_scraper(k, config, chrome)]
            /\ todo' = ScraperKeys
            /\ pc' = "loop"
       ELSE /\ cli' = [cli EXCEPT !.pc = "export"]
            /\ UNCHANGED <<scrapers, todo, pc>>
    /\ UNCHANGED <<storeVars, config, patched, cur, uni_info, started,
                   raisedIn, lost, gc, site, inst, cin, cout>>

\* an exception raised in main() outside the try of its loop, by
\* DatabaseManager(...) or by db.get_statistics(), reaches "except Exception"
\* of main_cli: logged, return
CliMainRaised ==
    /\ cli.pc = "main" /\ pc = "loop"
    /\ \/ todo = ScraperKeys /\ cur = None /\ started = [k \in {"bologna", "lse"} |-> 0]
          /\ cli' = ended(0, "DatabaseManager raised")
       \/ todo = <<>>
          /\ cli' = ended(0, "get_statistics raised")
    /\ pc' = "raised"
    /\ UNCHANGED <<storeVars, config, patched, todo, cur, scrapers, uni_info,
                   started, raisedIn, lost, gc, site, inst, cin, cout>>

\* a KeyboardInterrupt delivered while main() runs: no "except Exception"
\* catches it, it reaches "except KeyboardInterrupt" of main_cli: return
CliInterrupt ==
    /\ cli.pc = "main" /\ pc \notin {"done", "raised", "interrupted"}
    /\ ~ cli.signal
    /\ cli' = [ended(0, "interrupted") EXCEPT !.signal = TRUE]
    /\ pc' = "interrupted"
    /\ UNCHANGED <<storeVars, config, patched, todo, cur, scrapers, uni_info,
                   started, raisedIn, lost, gc, site, inst, cin, cout>>

\* a KeyboardInterrupt delivered inside the cookie banner block of the
\* get_courses of fix_lse_scraper.py (find_element, click, time.sleep(1)):
\* "except: pass" catches it, the page is read and the loop goes on
GcFixCookieInterrupt ==
    /\ cli.pc = "main" /\ ~ cli.signal
    /\ pc = "get_courses" /\ gc.pc = "url" /\ gc.key = "lse" /\ patched
    /\ scrapers["lse"].use_selenium /\ scrapers["lse"].driver
    /\ cli' = [cli EXCEPT !.signal = TRUE]
    /\ \/ /\ LSEFix_urls_to_try[gc.i].type \in {"undergraduate", "graduate"}
          /\ \E links \in LSEFixLinkPages, t0 \in Starts, step \in Steps :
                gc' = requested(LSEFix_after_url(gc.courses \o
                                    LSEFix_extract_links(links,
                                        LSEFix_urls_to_try[gc.i].type, t0, step)),
                                TRUE)
       \/ /\ LSEFix_urls_to_try[gc.i].type \notin {"undergraduate", "graduate"}
          /\ gc' = requested([gc EXCEPT !.pc = "selector", !.j = 1], TRUE)
    /\ UNCHANGED <<storeVars, mainVars, site, inst, cin, cout>>

\* scraping was skipped or main() returned: "if args.export: export_data(db, args.export, config)",
\* each export written or raising (nothing in main_cli catches it); with
\* 'all' the Excel file is the last one written
CliExport ==
    /\ cli.pc = "export" \/ (cli.pc = "main" /\ pc = "done")
    /\ IF cli.args.export = None
       THEN cli' = [cli EXCEPT !.pc = "statistics"] /\ UNCHANGED exported
       ELSE \/ /\ exported' = Some(
                    CASE cli.args.export[1] = "json" ->
                            export_to_json(universities, degree_courses,
                                learning_modules, admission_requirements)
                      [] cli.args.export[1] = "csv" ->
                            export_to_csv(universities, degree_courses)
                      [] OTHER ->
                            export_to_excel(universities, degree_courses,
                                learning_modules, admission_requirements))
               /\ cli' = [cli EXCEPT !.pc = "statistics"]
            \/ /\ cli' = ended(1, "export raised")
               /\ UNCHANGED exported
    /\ ReadOnly
    /\ UNCHANGED <<now, stats, lastSave, mainVars, gc, site, inst, cin, cout>>

\* the final show_statistics(db)
CliStatistics ==
    /\ cli.pc = "statistics"
    /\ stats' = Some(get_statistics(universities, degree_courses))
    /\ cli' = ended(0, "done")
    /\ ReadOnly
    /\ UNCHANGED <<now, exported, lastSave, mainVars, gc, site, inst, cin, cout>>

(***************************************************************************)
(* One scraper object and its browser sessions.  A session is the number   *)
(* of the webdriver.Chrome(...) call that created it; inst.created counts   *)
(* these calls, inst.quit holds the sessions whose quit() has been called, *)
(* inst.calls counts the calls of setup_selenium() from outside.           *)
(***************************************************************************)
MaxSetups == 3

\* UniversityScraper.setup_selenium: nothing when use_selenium is false;
\* otherwise a new session is assigned to self.driver (chrome), or the
\* exception handler clears use_selenium and self.driver stays as it was
setup_selenium(self, chrome) ==
    IF ~ self.use_selenium THEN self
    ELSE IF chrome
    THEN [self EXCEPT !.driver = Some(self.created + 1), !.created = @ + 1]
    ELSE [self EXCEPT !.use_selenium = FALSE]

\* UniversityScraper.__init__ (driver None, use_selenium from the
\* configuration), and the __init__ of fix_lse_scraper.py after it
InstConstruct ==
    /\ inst.phase = "none"
    /\ \E class \in {"BolognaScraper", "LSEScraper", "LSEScraper (fix)"},
          use_selenium \in BOOLEAN, chrome \in BOOLEAN :
        LET self == [NoInst EXCEPT !.phase = "constructed", !.class = class,
                                   !.use_selenium = use_selenium]
        IN  inst' = IF class = "LSEScraper (fix)"
                    THEN setup_selenium([self EXCEPT !.use_selenium = TRUE], chrome)
                    ELSE self
    /\ UNCHANGED <<storeVars, mainVars, gc, site, cli, cin, cout>>

\* scraper.setup_selenium() called on the object
InstSetupSelenium ==
    /\ inst.phase = "constructed" /\ inst.calls < MaxSetups
    /\ \E chrome \in BOOLEAN :
        inst' = [setup_selenium(inst, chrome) EXCEPT !.calls = @ + 1]
    /\ UNCHANGED <<storeVars, mainVars, gc, site, cli, cin, cout>>

\* get_university_info() and get_courses(): self.driver is used, not assigned
InstScrape ==
    /\ inst.phase = "constructed"
    /\ inst' = [inst EXCEPT !.phase = "scraped"]
    /\ UNCHANGED <<storeVars, mainVars, gc, site, cli, cin, cout>>

\* UniversityScraper.__del__: "if self.driver: self.driver.quit()"
InstTeardown ==
    /\ inst.phase \in {"constructed", "scraped"}
    /\ inst' = [inst EXCEPT !.phase = "torn down",
                            !.quit = IF inst.driver = None THEN @
                                     ELSE @ \cup {inst.driver[1]}]
    /\ UNCHANGED <<storeVars, mainVars, gc, site, cli, cin, cout>>

(***************************************************************************)
(* _determine_area called directly, with names of up to MaxWords words.    *)
(***************************************************************************)
AreaWords ==
    << <<"A", "n", "t", "h", "r", "o", "p", "o", "l", "o", "g", "y">>,
       <<"L", "a", "w">>,
       <<"l", "a", "w">>,
       <<"E", "C", "O", "N", "O", "M", "I", "C", "S">>,
       <<"F", "i", "n", "a", "n", "c", "e">>,
       <<"M", "a", "n", "a", "g", "e", "m", "e", "n", "t">>,
       <<"E", "n", "g", "i", "n", "e", "e", "r", "i", "n", "g">>,
       <<"H", "i", "s", "t", "o", "r", "y">>,
       <<"B", "u", "s", "i", "n", "e", "s", "s">>,
       <<"D", "a", "t", "a">>,
       <<"L", "e", "g", "a", "l">>,
       <<"M", "u", "s", "i", "c">> >>

AreaNames ==
    {join(<<" ">>, ws) :
        ws \in SeqsUpTo({AreaWords[k] : k \in 1..Len(AreaWords)}, MaxWords)}

AreaLSE ==
    /\ cin = None
    /\ \E text \in AreaNames :
        /\ cin' = Some([fn |-> "LSEScraper._determine_area", text |-> text,
                        prog_type |-> ""])
        /\ cout' = Some(LSE_determine_area(text))
    /\ UNCHANGED <<storeVars, mainVars, gc, site, cli, inst>>

AreaBologna ==
    /\ cin = None
    /\ \E text \in AreaNames :
        /\ cin' = Some([fn |-> "BolognaScraper._determine_area", text |-> text,
                        prog_type |-> ""])
        /\ cout' = Some(Bologna_determine_area(text))
    /\ UNCHANGED <<storeVars, mainVars, gc, site, cli, inst>>

(***************************************************************************)
(* Specifications.                                                         *)
(***************************************************************************)
\* init_database() on a new file: CREATE TABLE IF NOT EXISTS, no rows
Fresh == universities = {} /\ degree_courses = {}

\* what an earlier run of main(), at time 0 and with the classes of
\* university_scraper.py, left in the file: both institutions and one
\* programme of each
EarlierItem == [tag |-> "a", text |-> Some(t_BSc_Economics), href |-> BolognaHref]
EarlierLSEItem == [title |-> Some(t_BSc_Economics), href |-> Some(ProgrammeHref)]

Earlier ==
    /\ universities = {with_last_updated(Bologna_university_info, 0),
                       with_last_updated(LSE_university_info, 0)}
    /\ degree_courses =
            save_courses(
                save_courses({},
                    Bologna_extract([divs |-> <<>>, anchors |-> <<EarlierItem>>],
                                    "first_cycle", 0, 0), 0),
                LSE_extract([divs |-> <<EarlierLSEItem>>, articles |-> <<>>], 0, 0),
                0)

Idle ==
    /\ learning_modules = {} /\ admission_requirements = {}
    /\ now = 0 /\ stats = None /\ exported = None /\ lastSave = None
    /\ config = NoConfig
    /\ pc = "idle" /\ todo = <<>> /\ cur = None
    /\ scrapers = [k \in {"bologna", "lse"} |-> NoScraper]
    /\ uni_info = None
    /\ started = [k \in {"bologna", "lse"} |-> 0]
    /\ raisedIn = [k \in {"bologna", "lse"} |-> None]
    /\ lost = NoLoss
    /\ gc = gc_idle
    /\ cli = NoCli /\ inst = NoInst
    /\ cin = None /\ cout = None

\* main() about to be run, on a new file or on the file of an earlier run
Init == Idle /\ (Fresh \/ Earlier) /\ patched \in BOOLEAN /\ site = LeanSite

Next ==
    \/ MainStart \/ MainLoop \/ MainSetupSelenium \/ MainGetUniversityInfo
    \/ MainSaveUniversity \/ MainGetCoursesRaised \/ MainSaveCourses
    \/ MainExcept \/ MainStatistics
    \/ GcBolognaUrl \/ GcLSE \/ GcFixSkipUrl \/ GcFixUrl \/ GcFixSelector
    \/ GcFixFinish \/ GcRaise
    \/ Tick

Spec == Init /\ [][Next]_vars

\* DatabaseManager on an empty store, called with any records
InitStore == Idle /\ Fresh /\ patched = FALSE /\ site = LeanSite

NextStore ==
    \/ DbSaveUniversity \/ DbSaveCourses
    \/ DbExportToJson \/ DbExportToCsv \/ DbExportToExcel \/ DbGetStatistics
    \/ Tick

SpecStore == InitStore /\ [][NextStore]_vars

\* the classifiers, called with any name
InitClassify == Idle /\ Fresh /\ patched = FALSE /\ site = LeanSite

NextClassify == ClassifyFix \/ ClassifyLSE \/ ClassifyReturn

SpecClassify == InitClassify /\ [][NextClassify]_vars

\* a site of one programme, read with a steady clock
QuietSite == [texts |-> {t_BSc_Economics}, items |-> 1, starts |-> {0},
              steps |-> {1}]

\* the command python run_scraper.py with any command line, on a new file
\* or on the file of an earlier run
InitCli ==
    /\ Fresh \/ Earlier
    /\ learning_modules = {} /\ admission_requirements = {}
    /\ now = 0 /\ stats = None /\ exported = None /\ lastSave = None
    /\ config = NoConfig /\ patched \in BOOLEAN /\ site = QuietSite
    /\ pc = "idle" /\ todo = <<>> /\ cur = None
    /\ scrapers = [k \in {"bologna", "lse"} |-> NoScraper]
    /\ uni_info = None
    /\ started = [k \in {"bologna", "lse"} |-> 0]
    /\ raisedIn = [k \in {"bologna", "lse"} |-> None]
    /\ lost = NoLoss
    /\ gc = gc_idle /\ inst = NoInst
    /\ cin = None /\ cout = None
    /\ \E args \in CommandLines :
          cli = [NoCli EXCEPT !.pc = "load_config", !.args = args,
                             !.universities = universities,
                             !.degree_courses = degree_courses]

NextCli ==
    \/ CliLoadConfig \/ CliInit \/ CliStats \/ CliScrape
    \/ CliMainRaised \/ CliInterrupt \/ GcFixCookieInterrupt
    \/ CliExport \/ CliStatistics
    \/ MainLoop \/ MainSetupSelenium \/ MainGetUniversityInfo
    \/ MainSaveUniversity \/ MainGetCoursesRaised \/ MainSaveCourses
    \/ MainExcept \/ MainStatistics
    \/ GcBolognaUrl \/ GcLSE \/ GcFixSkipUrl \/ GcFixUrl \/ GcFixSelector
    \/ GcFixFinish \/ GcRaise

SpecCli == InitCli /\ [][NextCli]_vars

\* one scraper object: construction, calls of setup_selenium(), the scrape,
\* teardown
InitSession == Idle /\ Fresh /\ patched = FALSE /\ site = LeanSite

NextSession == InstConstruct \/ InstSetupSelenium \/ InstScrape \/ InstTeardown

SpecSession == InitSession /\ [][NextSession]_vars

\* _determine_area of either class, called with any name
InitArea == Idle /\ Fresh /\ patched = FALSE /\ site = LeanSite

NextArea == AreaLSE \/ AreaBologna \/ ClassifyReturn

SpecArea == InitArea /\ [][NextArea]_vars

\* main() inside its loop, about to call scraper.get_courses() for one
\* institution whose record it has just saved
ScrapeInit(keys, fixes, pages) ==
    /\ learning_modules = {} /\ admission_requirements = {}
    /\ now = 0 /\ stats = None /\ exported = None
    /\ patched \in fixes /\ site = pages
    /\ pc = "get_courses"
    /\ uni_info = None
    /\ raisedIn = [k \in {"bologna", "lse"} |-> None]
    /\ lost = NoLoss
    /\ cli = NoCli /\ inst = NoInst
    /\ cin = None /\ cout = None
    /\ degree_courses = {}
    /\ \E key \in keys, chrome \in BOOLEAN :
        /\ config = [universities |-> {key}, use_selenium |-> FALSE]
        /\ scrapers = [k \in {"bologna", "lse"} |-> new_scraper(k, config, chrome)]
        /\ todo = IF key = "bologna" THEN <<"lse">> ELSE <<>>
        /\ cur = Some(key)
        /\ started = [k \in {"bologna", "lse"} |-> IF k = key THEN 1 ELSE 0]
        /\ universities = save_university({}, university_info(key), 0)
        /\ lastSave = Some([op |-> "save_university",
                            arg |-> university_info(key), repeat |-> FALSE])
        /\ gc = gc_start(key)

InitScrape == ScrapeInit({"bologna", "lse"}, BOOLEAN, RichSite)

NextScrape ==
    \/ GcBolognaUrl \/ GcLSE \/ GcFixSkipUrl \/ GcFixUrl \/ GcFixSelector
    \/ GcFixFinish \/ GcRaise
    \/ MainGetCoursesRaised \/ MainSaveCourses \/ MainExcept

SpecScrape == InitScrape /\ [][NextScrape]_vars

\* get_courses() of the class of fix_lse_scraper.py alone, under a steady
\* clock
InitFix == ScrapeInit({"lse"}, {TRUE}, SteadySite)

NextFix == GcFixSkipUrl \/ GcFixUrl \/ GcFixSelector \/ GcFixFinish

SpecFix == InitFix /\ [][NextFix]_vars

\* get_courses() of each class from its first URL to its return, on
\* listings long enough to reach the minimum record count
InitUrls ==
    \/ ScrapeInit({"bologna", "lse"}, {FALSE}, ListingSite)
    \/ ScrapeInit({"lse"}, {TRUE}, CountSite)

NextUrls ==
    \/ GcBolognaUrl \/ GcLSE
    \/ GcFixSkipUrl \/ GcFixUrl \/ GcFixSelector \/ GcFixFinish

SpecUrls == InitUrls /\ [][NextUrls]_vars

(***************************************************************************)
(* Properties of main(): the loop over the institutions.                   *)
(***************************************************************************)
Keys == {"bologna", "lse"}

Pending == {todo[p] : p \in 1..Len(todo)}

\* C1: an exception raised while one institution is processed never keeps
\* the remaining configured institutions from being processed: at every
\* point of a run the processing of a configured institution has been
\* started exactly once if the loop has passed its key and not at all
\* otherwise, whatever the earlier institutions did; when the loop ends each
\* configured institution has been started exactly once.
C1_EveryInstitutionStartedOnce ==
    \A k \in Keys :
        started[k] = IF k \in config.universities /\ k \notin Pending
                     THEN 1 ELSE 0

\* the loop is over, the first institution raised and the second one was
\* processed and its programmes saved
C1_Witness ==
    /\ pc = "loop" /\ todo = <<>>
    /\ config.universities = Keys
    /\ raisedIn["bologna"] # None
    /\ raisedIn["lse"] = None
    /\ started["lse"] = 1
    /\ lastSave # None /\ lastSave[1].op = "save_courses"
    /\ \E c \in degree_courses : c.university_id = "LSE" /\ c.last_updated = now

RaisedAt(k, steps) == raisedIn[k] # None /\ raisedIn[k][1] \in steps

\* C2, as the specification states it: an institution whose scrape raised
\* has the universities row and the degree_courses rows it had before the
\* run, every column of them, last_updated included.
C2_SkippedEntirely ==
    \A k \in Keys :
        raisedIn[k] # None =>
            ~ lost[k].universities /\ ~ lost[k].degree_courses

\* C2, amended: an institution whose scrape raised keeps the degree_courses
\* rows it had before the run; it keeps its universities row if the
\* exception was raised before save_university committed (in setup_selenium,
\* get_university_info or save_university); if it was raised later (in
\* get_courses or save_courses) the universities row is the record of this
\* run, with this run's last_updated.
C2_CoursesKeptRecordRefreshed ==
    \A k \in Keys :
        raisedIn[k] # None =>
            /\ ~ lost[k].degree_courses
            /\ RaisedAt(k, {"setup_selenium", "get_university_info",
                            "save_university"})
                  => ~ lost[k].universities
            /\ RaisedAt(k, {"get_courses", "save_courses"})
                  => with_last_updated(university_info(k), now) \in universities

\* save_courses raised for an institution that had rows before the run: its
\* programmes are as they were, its record has been replaced
C2_Witness ==
    /\ RaisedAt("lse", {"save_courses"})
    /\ lost["lse"].universities
    /\ \E c \in degree_courses : c.university_id = "LSE" /\ c.last_updated < now
    /\ \E u \in universities : u.university_id = "LSE" /\ u.last_updated = now

\* C3: every row of degree_courses has the university_id of some row of
\* universities, after any steps of any runs, failed steps included.
C3_CoursesReferenceAnInstitution ==
    \A c \in degree_courses :
        \E u \in universities : u.university_id = c.university_id

\* on a file that was new, programmes were saved in a run in which the other
\* institution raised
C3_Witness ==
    /\ \A r \in universities \cup degree_courses : r.last_updated = now
    /\ lastSave # None /\ lastSave[1].op = "save_courses"
    /\ degree_courses # {}
    /\ \E k \in Keys : raisedIn[k] # None

(***************************************************************************)
(* Properties of DatabaseManager.                                          *)
(***************************************************************************)
Saved(op) == lastSave # None /\ lastSave[1].op = op

RowsWithId(table, column, id) == {r \in table : r[column] = id}

\* what the save call just made was called with, as a set of records
SavedRecords ==
    IF Saved("save_university") THEN {lastSave[1].arg}
    ELSE IF Saved("save_courses")
         THEN {lastSave[1].arg[p] : p \in 1..Len(lastSave[1].arg)}
         ELSE {}

\* C4: persistence is idempotent by identifier: after save_university is
\* called a second time with the same record, or save_courses with the same
\* list, there is exactly one row for each identifier of the argument, and
\* the second call leaves the row counts of universities and degree_courses
\* as the first call left them.
C4_SaveTwiceOneRow ==
    /\ [](\A d \in SavedRecords :
            /\ Saved("save_university") =>
                  Cardinality(RowsWithId(universities, "university_id",
                                         d.university_id)) = 1
            /\ Saved("save_courses") =>
                  Cardinality(RowsWithId(degree_courses, "degree_course_code",
                                         d.degree_course_code)) = 1)
    /\ [][(lastSave' # lastSave /\ lastSave'[1].repeat) =>
            /\ Cardinality(universities') = Cardinality(universities)
            /\ Cardinality(degree_courses') = Cardinality(degree_courses)]_vars

\* the same list of two programmes was saved twice, a second apart
C4_Witness ==
    /\ Saved("save_courses") /\ lastSave[1].repeat
    /\ Len(lastSave[1].arg) = 2
    /\ lastSave[1].arg[1].degree_course_code # lastSave[1].arg[2].degree_course_code
    /\ now = 1
    /\ Cardinality(degree_courses) = 2
    /\ \A r \in degree_courses : r.last_updated = 1

\* C21: save_courses is all-or-nothing: when inserting a course of the list
\* raises, degree_courses is as it was before the call, whatever number of
\* courses had been inserted before the one that raised; when it returns,
\* every course of the list has its row.
C21_SaveCoursesAllOrNothing ==
    /\ [][Saved("save_courses raised")' => degree_courses' = degree_courses]_vars
    /\ [](Saved("save_courses") =>
            \A d \in SavedRecords :
                RowsWithId(degree_courses, "degree_course_code",
                           d.degree_course_code) # {})

\* a call with three programmes raised on an empty table, which is still
\* empty, although up to two of them had been inserted
C21_Witness ==
    /\ Saved("save_courses raised")
    /\ Len(lastSave[1].arg) = 3
    /\ degree_courses = {}

\* C5: get_statistics reports the live contents of the store: 'universities'
\* is the number of rows of universities, 'courses' the number of rows of
\* degree_courses, and by_university gives, for every stored institution,
\* the number of degree_courses rows with its university_id, 0 for an
\* institution without programmes.
C5_StatisticsAreLive ==
    stats # None =>
        /\ stats[1].universities = Cardinality(universities)
        /\ stats[1].courses = Cardinality(degree_courses)
        /\ \A u \in universities :
            /\ u.university_name \in DOMAIN stats[1].by_university
            /\ stats[1].by_university[u.university_name] =
                   Cardinality(RowsWithId(degree_courses, "university_id",
                                          u.university_id))

\* two institutions, three programmes of the first one: 2, 3, 3 and 0
C5_Witness ==
    /\ stats # None
    /\ stats[1].universities = 2
    /\ stats[1].courses = 3
    /\ stats[1].by_university[LSE_university_info.university_name] = 3
    /\ stats[1].by_university[Bologna_university_info.university_name] = 0

\* the sum of the counts of a grouping
RECURSIVE SumOver(_, _)
SumOver(f, S) ==
    IF S = {} THEN 0
    ELSE LET k == CHOOSE x \in S : TRUE IN f[k] + SumOver(f, S \ {k})

Total(f) == SumOver(f, DOMAIN f)

\* the programmes whose university_id is the id of a stored institution
OfStoredInstitution ==
    {c \in degree_courses :
        \E u \in universities : u.university_id = c.university_id}

C9_ExportCounts ==
    exported # None =>
        /\ Len(exported[1].universities) = Cardinality(universities)
        /\ Len(exported[1].courses) = Cardinality(degree_courses)
        /\ Len(exported[1].universities) =
               get_statistics(universities, degree_courses).universities
        /\ Len(exported[1].courses) =
               get_statistics(universities, degree_courses).courses

\* an export of a store with both institutions and several programmes, one
\* of which was saved over
C9_Witness ==
    /\ exported # None
    /\ Len(exported[1].universities) = 2
    /\ Len(exported[1].courses) = 3
    /\ \E p, q \in 1..3 :
            exported[1].courses[p].last_updated # exported[1].courses[q].last_updated

(***************************************************************************)
(* Properties of the classifiers.                                          *)
(***************************************************************************)
Classified(fn) == cin # None /\ cout # None /\ cin[1].fn = fn

Is(course, type, years) ==
    course.degree_course_type = type /\ course.degree_course_period_years = years

Has(course, word) == Contains(course.degree_course_name, word)

Returned == pc = "get_courses" /\ gc.pc = "returned"

DistinctNames(courses) ==
    \A p, q \in 1..Len(courses) :
        p # q => courses[p].degree_course_name # courses[q].degree_course_name

\* C6: the list get_courses() returns, for every scraper variant and
\* whatever the pages hold, has no two entries with the same
\* degree_course_name.
C6_NoTwoEntriesOfOneName == Returned => DistinctNames(gc.result)

\* C8: get_courses() of the class with the catalogue (fix_lse_scraper.py):
\* when no URL gave a course, the list returned has exactly the catalogue's
\* names, in catalogue order, each with the type and duration the classifier
\* of live records gives its name and tag; when a course was extracted live,
\* every entry returned is one of the extracted ones.
C8_FallbackOnlyWhenNothingLive ==
    (Returned /\ gc.key = "lse" /\ patched) =>
        IF gc.courses = <<>>
        THEN /\ Len(gc.result) = Len(known_programmes)
             /\ \A p \in 1..Len(gc.result) :
                    /\ gc.result[p].degree_course_name = known_programmes[p][1]
                    /\ Is(gc.result[p],
                          LSEFix_classify(known_programmes[p][1],
                                          known_programmes[p][2]).type,
                          LSEFix_classify(known_programmes[p][1],
                                          known_programmes[p][2]).years)
        ELSE \A p \in 1..Len(gc.result) :
                \E q \in 1..Len(gc.courses) : gc.result[p] = gc.courses[q]

\* with a rendering session and three pages loaded nothing matched: the
\* catalogue is returned
C8_Witness ==
    /\ Returned /\ gc.key = "lse" /\ patched
    /\ scrapers["lse"].driver
    /\ gc.i = Len(LSEFix_urls_to_try)
    /\ gc.courses = <<>>
    /\ Len(gc.result) = Len(known_programmes)
    /\ \E p \in 1..Len(gc.result) : Is(gc.result[p], Bachelor, 3)
    /\ \E p \in 1..Len(gc.result) : Is(gc.result[p], Master, 1)

SameCode(courses) ==
    \E p, q \in 1..Len(courses) :
        p # q /\ courses[p].degree_course_code = courses[q].degree_course_code

\* C10: the codes of one get_courses() call do not collide: programmes of
\* distinct names in the list returned have distinct codes, and after
\* save_courses of a list of N programmes of distinct names degree_courses
\* has N rows for them.
C10_CodesDoNotCollide ==
    /\ (Returned /\ DistinctNames(gc.result)) => ~ SameCode(gc.result)
    /\ (pc = "loop" /\ Saved("save_courses")
            /\ DistinctNames(lastSave[1].arg))
          => Cardinality(degree_courses) = Len(lastSave[1].arg)

(***************************************************************************)
(* C19  Browser sessions and the configuration.                            *)
(***************************************************************************)
\* C19 as stated: a scraper holds a browser session only if use_selenium is
\* true in the active configuration and its institution is in the configured
\* list.
C19_SessionOnlyWhenConfigured ==
    \A k \in Keys :
        scrapers[k].driver => config.use_selenium /\ k \in config.universities

\* C19 amended: a scraper holds a browser session only if use_selenium is
\* true in the active configuration and its institution is in the configured
\* list, or it is the LSE scraper of fix_lse_scraper.py, whose constructor
\* turns use_selenium on and starts a session whatever the configuration says.
C19_SessionOnlyWhenConfiguredOrFixClass ==
    \A k \in Keys :
        scrapers[k].driver =>
            \/ config.use_selenium /\ k \in config.universities
            \/ k = "lse" /\ patched

\* main() has started a session for a configured institution
C19_Witness ==
    /\ pc = "get_university_info" /\ cur = Some("bologna")
    /\ scrapers["bologna"].driver
    /\ config.use_selenium

(***************************************************************************)
(* C20  Subject area: first match in table order.                          *)
(***************************************************************************)
\* the table a call of _determine_area walks
AreaTable ==
    IF cin[1].fn = "LSEScraper._determine_area" THEN LSE_areas ELSE Bologna_areas

\* area k of the table has a keyword that occurs in the name of the call,
\* letter case ignored
AreaHit(k) ==
    \E j \in 1..Len(AreaTable[k].keywords) :
        \E i \in 1..Len(cin[1].text) :
            LET kw == AreaTable[k].keywords[j]
            IN  /\ i + Len(kw) - 1 <= Len(cin[1].text)
                /\ \A d \in 1..Len(kw) :
                      upper_char(cin[1].text[i + d - 1]) = upper_char(kw[d])

AreaCall ==
    /\ cin # None
    /\ cin[1].fn \in {"LSEScraper._determine_area", "BolognaScraper._determine_area"}

\* C20: _determine_area walks its table in insertion order and returns the
\* first area one of whose keywords is a case-insensitive substring of the
\* name, and 'Other' when no area matches.
C20_FirstMatchWins ==
    AreaCall =>
        /\ (\A k \in 1..Len(AreaTable) : ~ AreaHit(k)) => cout = Some("Other")
        /\ \A k \in 1..Len(AreaTable) :
              AreaHit(k) /\ (\A j \in 1..(k - 1) : ~ AreaHit(j))
                  => cout = Some(AreaTable[k].area)

\* a name matching both Anthropology and Law resolves to Social Sciences
C20_Witness ==
    /\ AreaCall
    /\ cin[1].fn = "LSEScraper._determine_area"
    /\ cin[1].text = <<"L", "a", "w", " ", "A", "n", "t", "h", "r", "o", "p", "o", "l", "o", "g", "y">>
    /\ AreaHit(4) /\ AreaHit(7)
    /\ cout = Some("Social Sciences")

(***************************************************************************)
(* C17, C18  The candidate URLs of one get_courses() call.                 *)
(***************************************************************************)
\* the requests logged so far are for the URLs 1, 2, ... of the list
InListedOrder == \A p \in DOMAIN gc.loaded : gc.loaded[p].i = p

\* this step requests a URL
Requests == Len(gc'.loaded) = Len(gc.loaded) + 1

\* C17 as stated: every get_courses() loads its URLs in listed order, and
\* loads one only while fewer than 5 courses have been accumulated.
C17_StopsAtMinimum ==
    /\ [](InListedOrder)
    /\ [][Requests => Len(gc.courses) < MinCourses]_vars

\* C17 amended: the get_courses() of the LSE scrapers load their URLs in
\* listed order and load one only while fewer than 5 courses have been
\* accumulated (BolognaScraper.get_courses loads both of its URLs whatever
\* the first one yielded).
C17_LSEStopsAtMinimum ==
    /\ [](InListedOrder)
    /\ [][gc.key = "lse" /\ Requests => Len(gc.courses) < MinCourses]_vars

\* the first two URLs of the fix class gave 5 courses or more and the third
\* was never loaded
C17_Witness ==
    /\ patched /\ gc.key = "lse" /\ gc.pc = "returned"
    /\ Len(gc.courses) >= MinCourses
    /\ Len(gc.loaded) = 2 /\ gc.loaded[1].ok /\ gc.loaded[2].ok
    /\ Len(LSEFix_urls_to_try) = 3

\* a request that gave no document has been logged
SomeRequestFailed == \E p \in DOMAIN gc.loaded : ~ gc.loaded[p].ok

\* how far a call has come: the positions in the order the code reaches them
PcRank(p) == CASE p = "url" -> 0 [] p = "selector" -> 1 [] p = "finish" -> 2
               [] p = "returned" -> 3 [] OTHER -> 4

\* position h of a call is strictly later than position g
Later(g, h) ==
    \/ g.i < h.i
    \/ g.i = h.i /\ PcRank(g.pc) < PcRank(h.pc)
    \/ g.i = h.i /\ g.pc = "selector" /\ h.pc = "selector" /\ g.j < h.j

\* C18: within one get_courses() call no URL is requested twice; a request
\* that fails adds nothing and is followed by the next URL or by the end of
\* the loop, never by the same URL; every step takes the call strictly
\* further down its list of URLs and selectors, and the call is only ever on
\* its way to its return statement or at it.
C18_NoRetry ==
    /\ [](\A p, q \in DOMAIN gc.loaded :
              gc.loaded[p].i = gc.loaded[q].i => p = q)
    /\ [][Requests /\ ~ gc'.loaded[Len(gc'.loaded)].ok =>
              /\ gc'.courses = gc.courses
              /\ \/ gc'.pc = "url" /\ gc'.i = gc.i + 1
                 \/ gc'.pc \in {"finish", "returned"}]_vars
    /\ [][Later(gc, gc')]_vars
    /\ [](gc.pc \in {"url", "selector", "finish", "returned"})

\* a call in which a request failed has returned its list
C18_Witness ==
    /\ gc.pc = "returned" /\ SomeRequestFailed
    /\ DOMAIN gc.result = 1..Len(gc.result)

(***************************************************************************)
(* C15  The exports and get_statistics only read.                          *)
(***************************************************************************)
\* C15: export_to_json, export_to_csv, export_to_excel and get_statistics
\* leave the rows of all four tables as they were, whether they return or
\* raise.
C15_ExportsOnlyRead ==
    [][DbExportToJson \/ DbExportToCsv \/ DbExportToExcel \/ DbGetStatistics
          => /\ universities' = universities
             /\ degree_courses' = degree_courses
             /\ learning_modules' = learning_modules
             /\ admission_requirements' = admission_requirements]_vars

\* a CSV export of a store with both institutions and three programmes has
\* been written, and the statistics taken
C15_Witness ==
    /\ exported # None /\ DOMAIN exported[1] = {"universities", "courses"}
    /\ Len(exported[1].universities) = 2 /\ Len(exported[1].courses) = 3
    /\ stats # None
    /\ Cardinality(universities) = 2 /\ Cardinality(degree_courses) = 3

(***************************************************************************)
(* C14  Browser sessions of one scraper object.                            *)
(***************************************************************************)
\* C14: over construct, setup_selenium (any number of calls), scrape and
\* teardown, at most one browser session is ever created for a scraper
\* object, and at teardown every session created for it has been quit.
C14_OneSessionAllReleased ==
    /\ inst.created <= 1
    /\ inst.phase = "torn down" => inst.quit = 1..inst.created

(***************************************************************************)
(* C11, C12, C13, C16  The command: run_scraper.py.                        *)
(***************************************************************************)
SaveSteps == {"save_university", "save_courses"}

\* C11 as stated: once save_university or save_courses has raised for an
\* institution and the handler has run, the command has ended in the outer
\* handler of main_cli, and no later institution is processed.
C11_StoreErrorsFatal ==
    RaisedAt("bologna", SaveSteps) /\ pc # "except" =>
        /\ cli.pc = "exited"
        /\ started["lse"] = 0

\* C11 amended: an exception raised by save_university or save_courses is
\* caught by the handler of main()'s loop, which goes on with the remaining
\* institutions and leaves main_cli where it was; the outer handler of
\* main_cli is reached, while main() runs, only by an exception raised
\* outside the loop (by DatabaseManager(...) or get_statistics()), and then
\* the command ends with no export.
C11_StoreErrorsCaughtPerInstitution ==
    /\ [][pc = "except" /\ cli'.pc = "main" =>
              pc' = "loop" /\ todo' = todo /\ cli' = cli]_vars
    /\ [][cli.pc = "main" /\ pc # "done" /\ cli'.pc = "exited" /\ ~ cli'.signal =>
              /\ pc = "loop" /\ cur = None
              /\ cli'.how \in {"DatabaseManager raised", "get_statistics raised"}
              /\ exported' = None]_vars

\* save_university raised for Bologna and LSE, the later institution, is
\* being processed
C11_Witness ==
    /\ cli.pc = "main"
    /\ RaisedAt("bologna", {"save_university"})
    /\ started["lse"] = 1 /\ cur = Some("lse")

\* C12: once a KeyboardInterrupt has been delivered during the scrape, the
\* command has ended in "except KeyboardInterrupt" of main_cli, with no
\* export written.
C12_InterruptIsCleanStop ==
    cli.signal =>
        cli.pc = "exited" /\ cli.how = "interrupted" /\ exported = None

\* the store and the scrapers as they were when the command started
Untouched ==
    /\ universities = cli.universities /\ degree_courses = cli.degree_courses
    /\ pc = "idle" /\ lastSave = None /\ stats = None /\ exported = None
    /\ gc = gc_idle

\* C13: whatever the configuration file is, load_config has one of three
\* outcomes: the content of a well-formed file; for a missing file the
\* defaults (both institutions, use_selenium false), the run continuing; for
\* a malformed file the end of the process with a non-zero status, before
\* any store or scraper operation.
C13_LoadConfigOutcomes ==
    /\ cli.pc = "init" =>
          \/ cli.args.config = "well-formed" /\ config = FileConfig
          \/ /\ cli.args.config = "missing"
             /\ config = [universities |-> {"bologna", "lse"},
                          use_selenium |-> FALSE]
    /\ cli.args.config \in {"well-formed", "missing"} =>
          ~ (cli.pc = "exited" /\ cli.how = "load_config")
    /\ cli.args.config = "malformed" =>
          /\ cli.pc \in {"load_config", "exited"}
          /\ cli.pc = "exited" => cli.exit # None /\ cli.exit[1] # 0
          /\ Untouched
    /\ cli.pc = "exited" /\ cli.how = "load_config" =>
          cli.exit # None /\ cli.exit[1] # 0 /\ Untouched

\* a malformed file has ended the command with status 1, on a store with rows
C13_Witness ==
    /\ cli.args.config = "malformed"
    /\ cli.pc = "exited" /\ cli.exit = Some(1)
    /\ universities # {}

\* C16: with --no-scrape main() is never entered: no scraper is constructed,
\* no page is requested and nothing is saved; the rows are the rows the
\* store had when the command started, or none after --clean.
C16_NoScrapeOnlyReads ==
    cli.args.no_scrape =>
        /\ pc = "idle" /\ gc = gc_idle /\ lastSave = None
        /\ \A k \in Keys : scrapers[k] = NoScraper /\ started[k] = 0
        /\ universities = IF cli.cleaned THEN {} ELSE cli.universities
        /\ degree_courses = IF cli.cleaned THEN {} ELSE cli.degree_courses
        /\ learning_modules = {} /\ admission_requirements = {}

\* --no-scrape --export json on the file of an earlier run has ended: the
\* export is written, the statistics taken, the rows are those of before
C16_Witness ==
    /\ cli.args.no_scrape /\ cli.args.export = Some("json") /\ ~ cli.args.clean
    /\ cli.pc = "exited" /\ cli.how = "done"
    /\ exported # None /\ stats # None
    /\ universities = cli.universities /\ universities # {}
(***************************************************************************)
(* The selectors of a selector-type page.                                  *)
(***************************************************************************)
\* the selectors of the current page were tried in their listed order
TriedInListedOrder == \A k \in DOMAIN gc.tried : gc.tried[k].j = k

\* a selector tried on the current page added a course
SomeSelectorYielded == \E k \in DOMAIN gc.tried : gc.tried[k].found > 0

\* the loop over the selectors of the current page is over
SelectorsLeft ==
    /\ pc = "get_courses" /\ gc.pc = "finish" /\ gc.tried # <<>>
    /\ ~ gc.tried[Len(gc.tried)].raised

\* C23: on a selector-type page the selectors are tried in their listed
\* order until one of them yields a course from that page: the next selector
\* is tried only while none has yielded, and when the loop is left without
\* an exception either a selector of this page yielded a course or all of
\* them were tried, however many courses the earlier URLs contributed.
C23_SelectorsTriedUntilOneYields ==
    /\ TriedInListedOrder
    /\ gc.pc = "selector" => ~ SomeSelectorYielded
    /\ SelectorsLeft =>
          \/ SomeSelectorYielded
          \/ Len(gc.tried) = Len(LSEFix_urls_to_try[gc.i].selectors)

====
